---- MODULE Spec2Model ----
(***************************************************************************)
(* Model of the RustRoute RIP daemon's routing table                       *)
(* (src/src/routing_table.rs) and of the tasks that drive it               *)
(* (src/src/main.rs, src/src/router.rs, src/src/web.rs).                   *)
(*                                                                         *)
(* An IPv4 address is its four octets <<a, b, c, d>>, as Ipv4Addr::octets  *)
(* gives them.  An Option is a sequence: <<>> is None, <<x>> is Some(x).   *)
(* Instants are seconds since the daemon started.  Route::created_at is    *)
(* written by Route::new and read by no operation of the table, so a route *)
(* record leaves it out.                                                   *)
(***************************************************************************)
EXTENDS Integers, Sequences, FiniteSets, TLC

VARIABLES
    routes,                      \* RoutingTable.routes: key -> Route
    route_timeout,               \* RoutingTable.route_timeout (seconds)
    garbage_collection_timeout,  \* RoutingTable.garbage_collection_timeout
    poison_reverse,              \* RipConfig.poison_reverse of the running config
    now,                         \* Instant::now()
    swept,                       \* the maintenance task has run at this instant
    unreachable_since,           \* history: key -> instant a sweep first set metric 16
    metrics,                     \* MetricsCollector: the daemon's counters
    neighbors,                   \* neighbor registry: peer address -> RouterInfo
    routes_v6,                   \* RipV6RoutingTable.routes: Ipv6Net -> RipV6Route
    auth,                        \* AuthManager: config, users, active_tokens
    lockouts,                    \* history: user -> failed logins in a row, lock instant
    auth_active,                 \* AppState.auth holds a manager, which is `auth`
    config_manager,              \* ConfigManager and its configuration file
    network,                     \* a chain of routers: each one's RoutingTable
    tasks,                       \* the spawned tasks and calls in progress: id -> position, locals
    event_bus,                   \* EventBus: the route events a subscriber received; history
    metrics_route_count,         \* Metrics: the route_count gauge
    op                           \* the last operation, its arguments and its result

vars ==
    <<routes, route_timeout, garbage_collection_timeout, poison_reverse,
      now, swept, unreachable_since, metrics, neighbors, routes_v6,
      auth, lockouts, auth_active, config_manager, network, tasks, event_bus,
      metrics_route_count, op>>

---------------------------------------------------------------------------
(* Program constants                                                       *)

DEFAULT_ROUTE_TIMEOUT ==
    180

DEFAULT_GC_TIMEOUT ==
    240

\* RipConfig::garbage_collection_timeout of the default configuration.
CONFIG_GC_TIMEOUT ==
    120

UNREACHABLE_METRIC ==
    16

DEFAULT_UPDATE_INTERVAL ==
    30

MIN_UPDATE_INTERVAL ==
    5

Max(a, b) ==
    IF a >= b THEN a ELSE b

\* main.rs: Duration::from_secs(update_interval.max(5) * 2)
MaintenanceInterval ==
    Max(DEFAULT_UPDATE_INTERVAL, MIN_UPDATE_INTERVAL) * 2

---------------------------------------------------------------------------
(* Bounds of the model                                                     *)

\* A packet carries at most MaxEntries entries.
MaxEntries ==
    2

\* The admin API creates at most MaxRoutes routes.
MaxRoutes ==
    26

\* The chain has ChainLength routers.
ChainLength ==
    3

\* The chain runs for at most MaxRounds update intervals.
MaxRounds ==
    5

\* The configuration reaches at most version MaxVersions.
MaxVersions ==
    3

\* At most MaxTokens logins succeed.
MaxTokens ==
    2

\* The clock of the logins runs for MaxLoginTicks steps.
MaxLoginTicks ==
    7

\* MaxCalls calls of update_config run at the same time.
MaxCalls ==
    2

\* The admin API serves MaxRequests route requests.
MaxRequests ==
    2

\* The receive loops take MaxPackets datagrams.
MaxPackets ==
    2

\* Tokens are followed for MaxTokenTicks half-lives.
MaxTokenTicks ==
    3

\* The clock runs for MaxTicks maintenance intervals.
MaxTicks ==
    9

---------------------------------------------------------------------------
(* Addresses                                                               *)

UNSPECIFIED ==
    <<0, 0, 0, 0>>

None ==
    <<>>

Some(x) ==
    <<x>>

\* Result<T, E>
Ok(x) ==
    [ok |-> TRUE, value |-> x]

Err(msg) ==
    [ok |-> FALSE, error |-> msg]

RECURSIVE BitAnd(_, _)
\* u8 & u8
BitAnd(a, b) ==
    IF a = 0 \/ b = 0
    THEN 0
    ELSE (a % 2) * (b % 2) + 2 * BitAnd(a \div 2, b \div 2)

RECURSIVE CountOnes(_)
\* u8::count_ones
CountOnes(a) ==
    IF a = 0 THEN 0 ELSE (a % 2) + CountOnes(a \div 2)

---------------------------------------------------------------------------
(* Text of numbers and addresses: a text is the sequence of its characters. *)

DigitChars ==
    <<"0", "1", "2", "3", "4", "5", "6", "7", "8", "9">>

RECURSIVE Decimal(_)
\* The decimal text of a number.
Decimal(n) ==
    IF n < 10
    THEN <<DigitChars[n + 1]>>
    ELSE Decimal(n \div 10) \o <<DigitChars[(n % 10) + 1]>>

IsDigit(c) ==
    \E d \in 1..10 : DigitChars[d] = c

DigitValue(c) ==
    (CHOOSE d \in 1..10 : DigitChars[d] = c) - 1

RECURSIVE DigitsValue(_, _, _)
DigitsValue(s, i, acc) ==
    IF i > Len(s) THEN acc ELSE DigitsValue(s, i + 1, acc * 10 + DigitValue(s[i]))

\* The number a decimal text denotes, if it is one of at most `max`, for
\* the types up to u16: digits only, at least one, no leading zero.  A text
\* of ten digits or more is beyond every such type.
parse_number(s, max) ==
    IF \/ Len(s) = 0
       \/ \E i \in 1..Len(s) : ~IsDigit(s[i])
       \/ (Len(s) > 1 /\ s[1] = "0")
       \/ Len(s) > 9
    THEN None
    ELSE IF DigitsValue(s, 1, 0) > max THEN None ELSE Some(DigitsValue(s, 1, 0))

\* A u32 is held as its 32 bits read in two's complement: the number itself
\* below 2^31 and the number minus 2^32 from 2^31 on, so that every u32 is
\* an integer of 32 bits.  u32_hi and u32_lo are its upper and lower 16
\* bits.
u32_hi(x) ==
    IF x >= 0
    THEN x \div 65536
    ELSE 32768 + ((x + 2147483647) + 1) \div 65536

u32_lo(x) ==
    IF x >= 0
    THEN x % 65536
    ELSE ((x + 2147483647) + 1) % 65536

\* a > b for u32: of two numbers on the same side of 2^31 the greater
\* integer, of two on different sides the one from 2^31 on.
u32_gt(a, b) ==
    IF (a >= 0) = (b >= 0) THEN a > b ELSE a < 0

\* a < b for u32
u32_lt(a, b) ==
    u32_gt(b, a)

\* a <= b for u32
u32_le(a, b) ==
    ~u32_gt(a, b)

\* a >= b for u32
u32_ge(a, b) ==
    ~u32_gt(b, a)

\* Ord::min for u32
u32_min(a, b) ==
    IF u32_gt(a, b) THEN b ELSE a

\* Ord::max for u32
u32_max(a, b) ==
    IF u32_gt(a, b) THEN a ELSE b

\* u32::MAX, 4294967295
U32_MAX ==
    -1

\* x + 1 for u32, the 32 bits of the sum.  Every caller adds to the metric
\* of an entry that validate has accepted, which is at most 16.
u32_succ(x) ==
    IF x = 2147483647 THEN -2147483647 - 1 ELSE x + 1

\* Display for u32: the last digit and the text of the tenth part, which is
\* below 2^31.
u32_to_string(x) ==
    IF x >= 0
    THEN Decimal(x)
    ELSE LET rest == (u32_hi(x) % 10) * 65536 + u32_lo(x)
             tenth == (u32_hi(x) \div 10) * 65536 + rest \div 10
         IN  Decimal(tenth) \o <<DigitChars[(rest % 10) + 1]>>

\* The u32 a decimal text denotes, if it is one: at most 4294967295.
parse_u32(s) ==
    IF \/ Len(s) = 0
       \/ \E i \in 1..Len(s) : ~IsDigit(s[i])
       \/ (Len(s) > 1 /\ s[1] = "0")
       \/ Len(s) > 10
    THEN None
    ELSE IF Len(s) < 10
    THEN Some(DigitsValue(s, 1, 0))
    ELSE LET head == DigitsValue(SubSeq(s, 1, 9), 1, 0)
             last == DigitValue(s[10])
         IN  IF head > 429496729 \/ (head = 429496729 /\ last > 5)
             THEN None
             ELSE IF head < 214748364 \/ (head = 214748364 /\ last <= 7)
             THEN Some(head * 10 + last)
             ELSE Some((head - 429496728) * 10 + (last - 16))

\* Display for Ipv4Addr
ipv4_to_string(a) ==
    Decimal(a[1]) \o <<".">> \o Decimal(a[2]) \o <<".">> \o Decimal(a[3])
        \o <<".">> \o Decimal(a[4])

RECURSIVE SplitDots(_, _, _)
\* The parts of a text between its dots.
SplitDots(s, i, part) ==
    IF i > Len(s)
    THEN <<part>>
    ELSE IF s[i] = "."
    THEN <<part>> \o SplitDots(s, i + 1, <<>>)
    ELSE SplitDots(s, i + 1, Append(part, s[i]))

\* FromStr for Ipv4Addr: four decimal octets.
ipv4_from_str(s) ==
    LET parts == SplitDots(s, 1, <<>>)
        octets == [i \in 1..Len(parts) |-> parse_number(parts[i], 255)]
    IN
    IF Len(parts) # 4 \/ \E i \in 1..4 : octets[i] = None
    THEN None
    ELSE Some([i \in 1..4 |-> octets[i][1]])

\* The position of the first "/" of a text, 0 when there is none.
SlashAt(s) ==
    IF \E i \in 1..Len(s) : s[i] = "/"
    THEN CHOOSE i \in 1..Len(s) : s[i] = "/" /\ \A j \in 1..(i - 1) : s[j] # "/"
    ELSE 0

\* FromStr for IpNet, IPv4 networks: a dotted address, "/", a prefix length
\* of at most 32, written without leading zeros.
ipv4net_from_str(s) ==
    LET at == SlashAt(s) IN
    IF at = 0
    THEN None
    ELSE LET address == ipv4_from_str(SubSeq(s, 1, at - 1))
             prefix_len == parse_number(SubSeq(s, at + 1, Len(s)), 32)
         IN IF address = None \/ prefix_len = None
            THEN None
            ELSE Some(<<address[1], prefix_len[1]>>)

HexChars ==
    <<"0", "1", "2", "3", "4", "5", "6", "7", "8", "9",
      "a", "b", "c", "d", "e", "f">>

UpperHexChars ==
    <<"0", "1", "2", "3", "4", "5", "6", "7", "8", "9",
      "A", "B", "C", "D", "E", "F">>

IsHexDigit(c) ==
    \E d \in 1..16 : HexChars[d] = c \/ UpperHexChars[d] = c

HexValue(c) ==
    (CHOOSE d \in 1..16 : HexChars[d] = c \/ UpperHexChars[d] = c) - 1

RECURSIVE HexDigitsValue(_, _, _)
HexDigitsValue(s, i, acc) ==
    IF i > Len(s) THEN acc ELSE HexDigitsValue(s, i + 1, acc * 16 + HexValue(s[i]))

\* A group of an IPv6 address: one to four hexadecimal digits.
parse_group(s) ==
    IF Len(s) \notin 1..4 \/ \E i \in 1..Len(s) : ~IsHexDigit(s[i])
    THEN None
    ELSE Some(HexDigitsValue(s, 1, 0))

RECURSIVE SplitColons(_, _, _)
\* The parts of a text between its colons.
SplitColons(s, i, part) ==
    IF i > Len(s)
    THEN <<part>>
    ELSE IF s[i] = ":"
    THEN <<part>> \o SplitColons(s, i + 1, <<>>)
    ELSE SplitColons(s, i + 1, Append(part, s[i]))

\* The position of the first "::" of a text, 0 when there is none.
DoubleColonAt(s) ==
    LET at == {i \in 1..(Len(s) - 1) : s[i] = ":" /\ s[i + 1] = ":"} IN
    IF at = {} THEN 0 ELSE CHOOSE i \in at : \A j \in at : i <= j

\* The 16-bit groups a text of groups between colons denotes, if it is one:
\* the empty text has none; when `dotted` is set the last part may be a
\* dotted IPv4 address, which stands for two groups.
groups_from_str(s, dotted) ==
    IF Len(s) = 0
    THEN Some(<< >>)
    ELSE
    LET parts == SplitColons(s, 1, <<>>)
        n == Len(parts)
        v4 == IF dotted THEN ipv4_from_str(parts[n]) ELSE None
        hex == IF v4 = None THEN n ELSE n - 1
        groups == [i \in 1..hex |-> parse_group(parts[i])]
    IN  IF \E i \in 1..hex : groups[i] = None
        THEN None
        ELSE Some([i \in 1..hex |-> groups[i][1]]
                  \o (IF v4 = None
                      THEN << >>
                      ELSE <<v4[1][1] * 256 + v4[1][2], v4[1][3] * 256 + v4[1][4]>>))

\* FromStr for Ipv6Addr: eight groups, or fewer with one "::" that stands
\* for the groups left out, of which there is at least one; the last two
\* may be written as a dotted IPv4 address, not before the "::".
ipv6_from_str(s) ==
    LET at == DoubleColonAt(s) IN
    IF at = 0
    THEN LET all == groups_from_str(s, TRUE) IN
         IF all = None \/ Len(all[1]) # 8 THEN None ELSE all
    ELSE LET head == groups_from_str(SubSeq(s, 1, at - 1), FALSE)
             tail == groups_from_str(SubSeq(s, at + 2, Len(s)), TRUE)
         IN  IF head = None \/ tail = None
             THEN None
             ELSE IF Len(head[1]) + Len(tail[1]) > 7
             THEN None
             ELSE Some(head[1]
                       \o [i \in 1..(8 - Len(head[1]) - Len(tail[1])) |-> 0]
                       \o tail[1])

\* FromStr for IpNet, IPv6 networks: an address, "/", a prefix length of at
\* most 128.
ipv6net_from_str(s) ==
    LET at == SlashAt(s) IN
    IF at = 0
    THEN None
    ELSE LET address == ipv6_from_str(SubSeq(s, 1, at - 1))
             prefix_len == parse_number(SubSeq(s, at + 1, Len(s)), 128)
         IN IF address = None \/ prefix_len = None
            THEN None
            ELSE Some(<<address[1], prefix_len[1]>>)

\* FromStr for IpNet: an IPv4 network or an IPv6 network.
ipnet_from_str(s) ==
    LET v4 == ipv4net_from_str(s) IN
    IF v4 # None THEN v4 ELSE ipv6net_from_str(s)

---------------------------------------------------------------------------
(* Configuration (src/src/config_manager.rs).  A RouterConfig holds the     *)
(* fields validate_config reads; a snapshot leaves its timestamp out.       *)

DEFAULT_HISTORY_LIMIT ==
    20

\* RouterConfig::default()
DefaultRouterConfig ==
    [router_id |-> "192.168.1.1",
     interfaces |-> <<[name |-> "eth0",
                      address |-> ipv4_to_string(<<192, 168, 1, 1>>) \o <<"/">>
                                    \o Decimal(24),
                      enabled |-> TRUE,
                      cost |-> 1]>>,
     rip |-> [enabled |-> TRUE, port |-> 520, update_interval |-> 30,
              infinity_metric |-> 16],
     web |-> [enabled |-> TRUE, bind_address |-> "127.0.0.1", port |-> 8080,
              auth_enabled |-> FALSE],
     auth |-> [enabled |-> TRUE, token_expiry_hours |-> 24],
     logging |-> [level |-> "info"],
     backup |-> [enabled |-> TRUE, backup_directory |-> "/var/backups/rust-route"]]

\* ConfigManager::validate_config(..).is_valid(): no check added an error.
\* The warnings do not bear on it.
validate_config(config) ==
    /\ config.router_id # ""
    /\ Len(config.interfaces) # 0
    /\ \A i \in DOMAIN config.interfaces :
          /\ config.interfaces[i].name # ""
          /\ ipnet_from_str(config.interfaces[i].address) # None
    /\ config.rip.enabled =>
          /\ config.rip.port # 0
          /\ config.rip.update_interval # 0
          /\ config.rip.infinity_metric # 0
    /\ config.web.enabled =>
          /\ config.web.port # 0
          /\ config.web.bind_address # ""
    /\ config.auth.enabled => config.auth.token_expiry_hours # 0
    /\ config.logging.level \in {"error", "warn", "info", "debug", "trace"}
    /\ config.backup.enabled => config.backup.backup_directory # ""

RECURSIVE DropFront(_, _)
\* while guard.len() > limit { guard.pop_front(); }
DropFront(history, limit) ==
    IF Len(history) > limit THEN DropFront(Tail(history), limit) ELSE history

\* ConfigManager::record_snapshot
record_snapshot(history, limit, version, config) ==
    DropFront(
        Append(SelectSeq(history, LAMBDA snapshot : snapshot.version # version),
               [version |-> version, config |-> config]),
        limit)

\* ConfigManager::new for a file holding `config_file`: Some(config), or
\* None when the file cannot be read or parsed and the defaults are used.
\* `change` is the watch channel: the value it holds, how many values were
\* sent, and whether its only receiver, the one new returns to the caller,
\* has been dropped; `pending` counts the file watcher's Modify events not
\* yet handled and `events`, which is history, all of them.
NewConfigManager(config_file) ==
    LET config == IF config_file = None THEN DefaultRouterConfig ELSE config_file[1] IN
    [file |-> config_file,
     current_config |-> config,
     config_version |-> 1,
     change |-> [value |-> config, sent |-> 0, closed |-> FALSE],
     history |-> <<[version |-> 1, config |-> config]>>,
     history_limit |-> DEFAULT_HISTORY_LIMIT,
     pending |-> 0,
     events |-> 0]

\* update_config without its validation: every configuration passes.
update_config_ret_unchecked(new_config) ==
    Ok("()")

\* ConfigManager::update_config, its validation: the error it returns at
\* once for a configuration that does not pass, and otherwise the Ok(()) it
\* returns in the end.
update_config_ret(new_config) ==
    IF ~validate_config(new_config)
    THEN Err("Configuration validation failed")
    ELSE Ok("()")

\* The snapshot rollback_to finds for a version: Option<ConfigSnapshot>.
find_snapshot(cm, version) ==
    LET found == SelectSeq(cm.history, LAMBDA entry : entry.version = version) IN
    IF Len(found) = 0 THEN None ELSE Some(found[1])

---------------------------------------------------------------------------
(* Route                                                                   *)

\* Route::new; t is the Instant::now() it reads.
NewRoute(destination, subnet_mask, next_hop, metric, interface, source, learned_from, t) ==
    [destination |-> destination,
     subnet_mask |-> subnet_mask,
     next_hop |-> next_hop,
     metric |-> metric,
     interface |-> interface,
     learned_from |-> learned_from,
     last_updated |-> t,
     source |-> source]

new_direct(destination, subnet_mask, interface, t) ==
    NewRoute(destination, subnet_mask, UNSPECIFIED, 1, interface, "Direct", None, t)

priority_dynamic_first(source) ==
    CASE source = "Direct" -> 1
      [] source = "Static" -> 2
      [] source = "Dynamic" -> 3

priority(source) ==
    CASE source = "Direct" -> 3
      [] source = "Static" -> 2
      [] source = "Dynamic" -> 1

\* u32::from(mask).count_ones()
prefix_length(subnet_mask) ==
    CountOnes(subnet_mask[1]) + CountOnes(subnet_mask[2])
        + CountOnes(subnet_mask[3]) + CountOnes(subnet_mask[4])

mark_unreachable_stamp_only(route, t) ==
    [route EXCEPT !.last_updated = t]

mark_unreachable(route, t) ==
    [route EXCEPT !.metric = UNREACHABLE_METRIC, !.last_updated = t]

update_from(self, other, t) ==
    [self EXCEPT !.metric = other.metric,
                 !.next_hop = other.next_hop,
                 !.interface = other.interface,
                 !.learned_from = other.learned_from,
                 !.last_updated = t,
                 !.source = other.source]

---------------------------------------------------------------------------
(* RoutingTable                                                            *)

\* format!("{}/{}", destination, subnet_mask): the dotted-quad text of an
\* address determines its octets, so the key is the pair of addresses.
key(destination, subnet_mask) ==
    <<destination, subnet_mask>>

KeyOf(route) ==
    key(route.destination, route.subnet_mask)

\* The two tests of add_or_replace on an incumbent.
HigherPriority(route, existing) ==
    priority(route.source) > priority(existing.source)

\* The metric test with <= for <: an equal metric on another path replaces.
BetterOrSamePath_or_equal(route, existing) ==
    u32_le(route.metric, existing.metric)

BetterOrSamePath(route, existing) ==
    \/ u32_lt(route.metric, existing.metric)
    \/ /\ route.metric = existing.metric
       /\ route.next_hop = existing.next_hop
       /\ route.interface = existing.interface

\* The table add_or_replace leaves; t is the instant update_from reads.
add_or_replace(tbl, route, t) ==
    LET k == KeyOf(route) IN
    IF k \in DOMAIN tbl
    THEN IF HigherPriority(route, tbl[k])
         THEN [tbl EXCEPT ![k] = route]
         ELSE IF BetterOrSamePath(route, tbl[k])
              THEN [tbl EXCEPT ![k] = update_from(tbl[k], route, t)]
              ELSE tbl
    ELSE [x \in DOMAIN tbl \cup {k} |-> IF x = k THEN route ELSE tbl[x]]

\* The bool add_or_replace returns.
add_or_replace_ret(tbl, route) ==
    LET k == KeyOf(route) IN
    IF k \in DOMAIN tbl
    THEN HigherPriority(route, tbl[k]) \/ BetterOrSamePath(route, tbl[k])
    ELSE TRUE

install_direct_route(tbl, destination, subnet_mask, interface, t) ==
    add_or_replace(tbl, new_direct(destination, subnet_mask, interface, t), t)

StaticRoute(destination, subnet_mask, next_hop, metric, interface, t) ==
    NewRoute(destination, subnet_mask, next_hop, metric, interface, "Static",
             Some(next_hop), t)

add_static_route(tbl, destination, subnet_mask, next_hop, metric, interface, t) ==
    add_or_replace(tbl,
        StaticRoute(destination, subnet_mask, next_hop, metric, interface, t), t)

remove_route(tbl, destination, subnet_mask) ==
    [k \in DOMAIN tbl \ {key(destination, subnet_mask)} |-> tbl[k]]

\* RoutingTable::route_count
route_count(tbl) ==
    Cardinality(DOMAIN tbl)

\* RoutingTable::clear_source
clear_source(tbl, source) ==
    [k \in {x \in DOMAIN tbl : tbl[x].source # source} |-> tbl[k]]

RECURSIVE OctetsMatch(_, _, _, _)
\* The loop of matches_network from octet i on.
OctetsMatch(destination, route, i, n) ==
    IF i > n
    THEN TRUE
    ELSE IF BitAnd(destination[i], route.subnet_mask[i])
              # BitAnd(route.destination[i], route.subnet_mask[i])
         THEN FALSE
         ELSE OctetsMatch(destination, route, i + 1, n)

matches_network_exact(destination, route) ==
    destination = route.destination

matches_network(destination, route) ==
    OctetsMatch(destination, route, 1, 4)

\* The orders in which a HashMap holding these keys may iterate.
IterationOrders(tbl) ==
    {o \in [1..Cardinality(DOMAIN tbl) -> DOMAIN tbl] :
        \A i, j \in DOMAIN o : i # j => o[i] # o[j]}

RECURSIVE MaxByKeyPrefix(_, _, _, _)
\* Iterator::max_by_key(prefix_length) over the matching values in iteration
\* order, from position i on: the last of several equal maxima is returned.
MaxByKeyPrefix(tbl, order, i, best) ==
    IF i > Len(order)
    THEN best
    ELSE LET r == tbl[order[i]] IN
         IF best = None
               \/ prefix_length(r.subnet_mask) >= prefix_length(best[1].subnet_mask)
         THEN MaxByKeyPrefix(tbl, order, i + 1, Some(r))
         ELSE MaxByKeyPrefix(tbl, order, i + 1, best)

\* find_best_route when the map iterates in `order`: Option<Route>.
find_best_route(tbl, order, destination) ==
    LET matching == SelectSeq(order, LAMBDA k : matches_network(destination, tbl[k]))
    IN MaxByKeyPrefix(tbl, matching, 1, None)

get_route(tbl, order, destination) ==
    find_best_route(tbl, order, destination)

\* get_all_routes: the values in iteration order.
get_all_routes(tbl, order) ==
    [i \in 1..Len(order) |-> tbl[order[i]]]

\* get_routes_for_advertising: the values, in iteration order, whose
\* interface differs from the outgoing one.
get_routes_for_advertising(tbl, order, outgoing_interface) ==
    SelectSeq(get_all_routes(tbl, order),
              LAMBDA r : r.interface # outgoing_interface)

\* RipPacket::new_update
new_update(rs) ==
    [command |-> "Response",
     version |-> 2,
     reserved |-> 0,
     entries |-> [i \in 1..Len(rs) |->
                    [address_family |-> 2,
                     route_tag |-> 0,
                     ip_address |-> rs[i].destination,
                     subnet_mask |-> rs[i].subnet_mask,
                     next_hop |-> rs[i].next_hop,
                     metric |-> rs[i].metric]]]

\* The staleness test with >= for >: a route is stale at the timeout itself.
IsStale_at_timeout(route, t, timeout) ==
    route.source = "Dynamic" /\ t - route.last_updated >= timeout

\* The staleness test without the test of the source.
IsStale_any_source(route, t, timeout) ==
    t - route.last_updated > timeout

IsStale(route, t, timeout) ==
    route.source = "Dynamic" /\ t - route.last_updated > timeout

process_timeouts(tbl, t, timeout) ==
    [k \in DOMAIN tbl |->
        IF IsStale(tbl[k], t, timeout) THEN mark_unreachable(tbl[k], t) ELSE tbl[k]]

\* The closure of retain without the test of the source.
Retained_any_source(route, t, gc_timeout) ==
    IF u32_ge(route.metric, UNREACHABLE_METRIC)
    THEN t - route.last_updated <= gc_timeout
    ELSE TRUE

\* The closure of retain in garbage_collect.
Retained(route, t, gc_timeout) ==
    IF route.source = "Dynamic" /\ u32_ge(route.metric, UNREACHABLE_METRIC)
    THEN t - route.last_updated <= gc_timeout
    ELSE TRUE

garbage_collect(tbl, t, gc_timeout) ==
    [k \in {x \in DOMAIN tbl : Retained(tbl[x], t, gc_timeout)} |-> tbl[k]]

\* The body of the table maintenance task: both sweeps under one write lock.
maintain(tbl, t, timeout, gc_timeout) ==
    garbage_collect(process_timeouts(tbl, t, timeout), t, gc_timeout)

---------------------------------------------------------------------------
(* History                                                                 *)

\* unreachable_since after a sweep turned table `old` into `new` at t: an
\* entry the sweep brought from a metric below 16 to 16 is stamped t, an
\* entry already stamped keeps its stamp, a removed entry loses it.
StampSweep(us, old, new, t) ==
    [k \in {x \in DOMAIN new :
              x \in DOMAIN us
              \/ (u32_lt(old[x].metric, UNREACHABLE_METRIC)
                  /\ new[x].metric = UNREACHABLE_METRIC)} |->
        IF k \in DOMAIN us THEN us[k] ELSE t]

\* unreachable_since after a mutator turned `old` into `new`: an entry that
\* was rewritten (refreshed, replaced) or removed loses its stamp.
StampMutation(us, old, new) ==
    [k \in {x \in DOMAIN us : x \in DOMAIN new /\ new[x] = old[x]} |-> us[k]]

---------------------------------------------------------------------------
(* Inputs                                                                  *)

PeerA ==
    <<10, 1, 0, 1>>

Interfaces ==
    {"eth0", "eth1"}

Mask16 ==
    <<255, 255, 0, 0>>

Mask24 ==
    <<255, 255, 255, 0>>

Net10 ==
    <<10, 0, 0, 0>>

Host10 ==
    <<10, 0, 0, 5>>

\* 10.0.0.0/16, 10.0.0.0/24 and the same /24 written with host bits set.
Prefixes ==
    {<<Net10, Mask16>>, <<Net10, Mask24>>, <<Host10, Mask24>>}

PeerB ==
    <<10, 2, 0, 1>>

\* The neighbours Responses come from.
Peers ==
    {PeerA, PeerB}

\* The next hops the admin API is given.
NextHops ==
    {UNSPECIFIED, PeerA}

\* Two small metrics and the greatest a u32 holds.
Metrics ==
    {1, 2, U32_MAX}

\* 10.0.0.5 is in all three prefixes, 10.0.1.7 in the /16 only, 192.168.1.1
\* in none.
LookupAddresses ==
    {Host10, <<10, 0, 1, 7>>, <<192, 168, 1, 1>>}

\* The Dynamic routes a receive path hands to add_or_replace: the sender is
\* the next hop and the peer the route was learned from.
DynamicRoutes(prefixes, peers, metric_values, interfaces, t) ==
    {NewRoute(p[1], p[2], h, m, i, "Dynamic", Some(h), t) :
        p \in prefixes, h \in peers, m \in metric_values, i \in interfaces}

---------------------------------------------------------------------------
(* Operations                                                              *)

timers ==
    <<route_timeout, garbage_collection_timeout>>

\* The IPv4 routing table with its timers and the clock.
table_state ==
    <<routes, timers, poison_reverse, now, swept, unreachable_since>>

\* AuthConfig::default(), and the value tests::test_account_lockout sets.
DEFAULT_MAX_FAILED_ATTEMPTS ==
    5

TEST_MAX_FAILED_ATTEMPTS ==
    2

LOCKOUT_DURATION_MINUTES ==
    30

TOKEN_EXPIRY_HOURS ==
    24

\* bcrypt works on the first 72 bytes of a password and ignores the rest.
\* The passwords here are ASCII: a character is a byte.
BCRYPT_MAX_BYTES ==
    72

bcrypt_key(password) ==
    IF Len(password) > BCRYPT_MAX_BYTES
    THEN SubSeq(password, 1, BCRYPT_MAX_BYTES)
    ELSE password

\* bcrypt::hash and bcrypt::verify: a hash verifies the passwords that agree
\* in their first 72 bytes with the one it was made from, and no other.  The
\* salt, which makes two hashes of one password differ, is left out: no
\* operation compares two hashes.
hash(password) ==
    <<"bcrypt", bcrypt_key(password)>>

verify(password, password_hash) ==
    password_hash = hash(password)

\* AuthManager::new with create_default_admin.  `issued` counts the tokens
\* generated so far: the jti of a token is a fresh UUID, here the counter.
NewAuthManager(max_failed_attempts) ==
    [config |-> [enabled |-> TRUE,
                 token_expiry_hours |-> TOKEN_EXPIRY_HOURS,
                 max_failed_attempts |-> max_failed_attempts,
                 lockout_duration_minutes |-> LOCKOUT_DURATION_MINUTES],
     users |-> [u \in {"admin"} |->
                    [username |-> "admin",
                     password_hash |-> hash("admin123"),
                     role |-> "Admin",
                     last_login |-> None,
                     failed_attempts |-> 0,
                     locked_until |-> None,
                     active |-> TRUE]],
     active_tokens |-> [j \in {} |-> None],
     issued |-> 0]

\* MetricsCollector::new: every counter starts at zero.  The record holds
\* the counters of the receive side; packets_sent and routing_updates_sent
\* are written by the senders only and read by no operation modelled here.
NewMetrics ==
    [packets_received |-> 0,
     packets_dropped |-> 0,
     routing_updates_received |-> 0,
     route_changes |-> 0]

\* The state of the daemon's services beside the routing table.
\* The parts of the program beside the RIP daemon: the IPv6 table, the
\* authentication of the admin API and the configuration manager.
\* The routers of the chain, R1 first.
Routers ==
    1..ChainLength

\* The link between R(i) and R(i+1) is interface eth<i> on both of them.
Links ==
    1..(ChainLength - 1)

LinkInterface(link) ==
    <<"eth1", "eth2", "eth3", "eth4", "eth5", "eth6", "eth7", "eth8">>[link]

\* The address of router r on a link: the source address of what it sends
\* there.
LinkAddress(r, link) ==
    <<10, link, 0, r>>

\* The links a router is attached to, and who is at the other end.
LinksOf(r) ==
    {link \in Links : link = r \/ link = r - 1}

Neighbour(r, link) ==
    IF link = r THEN r + 1 ELSE r - 1

\* The programs a router of the chain may run: start_router of main.rs and
\* Router::run_with_real_networking of router.rs.
Programs ==
    {"daemon", "router"}

\* The interfaces of a router in the order of its configuration: R1 has the
\* LAN of its prefix on eth0; then the links.
InterfaceList(r) ==
    (IF r = 1 THEN <<"eth0">> ELSE << >>)
        \o (IF r - 1 \in Links THEN <<LinkInterface(r - 1)>> ELSE << >>)
        \o (IF r \in Links THEN <<LinkInterface(r)>> ELSE << >>)

InterfacesOf(r) ==
    {InterfaceList(r)[i] : i \in DOMAIN InterfaceList(r)}

\* The address of router r on an interface.
InterfaceAddress(r, interface) ==
    IF \E link \in LinksOf(r) : LinkInterface(link) = interface
    THEN LinkAddress(r, CHOOSE link \in LinksOf(r) : LinkInterface(link) = interface)
    ELSE <<10, 0, 0, r>>

\* The sockets of the chain: one per router and interface.
Sockets ==
    {s \in Routers \X {LinkInterface(link) : link \in 1..8} \cup (Routers \X {"eth0"}) :
        s[2] \in InterfacesOf(s[1])}

\* The periodic update task of a router waiting for its tick, and a
\* receive task waiting in recv_from.  `held` and `history` are history.
IdleUpdate ==
    [pc |-> "tick", interfaces |-> << >>, sockets |-> {}, packet |-> None,
     held |-> None]

IdleReceive ==
    [pc |-> "recv_from", packet |-> None, sender |-> None, history |-> None,
     routes |-> << >>]

\* The chain before a program is started: R1 holds Direct 10.0.0.0/24 on
\* eth0, the other tables are RoutingTable::new().  Per router: the program
\* it runs, its table, neighbor registry, counters, route count gauge and
\* published route events, and its periodic update task; per socket: the
\* datagrams waiting in it and its receive task.  `due` holds the timers
\* whose tick is due, `round` counts the update intervals that have passed,
\* `withdrawn` is the round in which R1 removed the prefix.  `unadvertised`
\* is history: for each router the changes of its table, as <<key, link>>,
\* that no packet it built for the link since has carried.
IdleMetricsUpdater ==
    [pc |-> "tick", count |-> None]

NewNetwork ==
    [programs |-> [r \in Routers |-> "down"],
     tables |-> [r \in Routers |->
                    IF r = 1
                    THEN install_direct_route([k \in {} |-> None], Net10, Mask24,
                                              "eth0", 0)
                    ELSE [k \in {} |-> None]],
     neighbors |-> [r \in Routers |-> [p \in {} |-> None]],
     metrics |-> [r \in Routers |-> NewMetrics],
     route_count |-> [r \in Routers |-> 0],
     metrics_updater |-> [r \in Routers |-> IdleMetricsUpdater],
     events |-> [r \in Routers |-> << >>],
     update |-> [r \in Routers |-> IdleUpdate],
     receive |-> [s \in Sockets |-> IdleReceive],
     sockets |-> [s \in Sockets |-> << >>],
     due |-> {},
     round |-> 0,
     withdrawn |-> None,
     unadvertised |-> [r \in Routers |-> {}]]

subsystems ==
    <<routes_v6, auth, lockouts, auth_active, config_manager, network, tasks, event_bus,
      metrics_route_count>>

services ==
    <<metrics, neighbors, subsystems>>

\* start_router's auth_active: AppState.auth is given a manager when the
\* configuration enables authentication twice, in auth and in web.
AuthActive(config) ==
    config.auth.enabled /\ config.web.auth_enabled

\* The history of logins of a manager that has seen none.
NoLockouts(manager) ==
    [u \in DOMAIN manager.users |-> [streak |-> 0, locked_at |-> None]]

\* The services as the program creates them, for the given AuthManager and
\* a configuration file of the given content.
InitServicesFor(manager, config_file) ==
    /\ metrics = NewMetrics
    /\ neighbors = [p \in {} |-> None]
    /\ routes_v6 = [p \in {} |-> None]
    /\ auth = manager
    /\ lockouts = NoLockouts(manager)
    /\ auth_active = AuthActive(NewConfigManager(config_file).current_config)
    /\ config_manager = NewConfigManager(config_file)
    /\ network = NewNetwork
    /\ tasks = [id \in {} |-> None]
    /\ event_bus = [published |-> << >>, mutated |-> << >>]
    /\ metrics_route_count = 0

\* The same for an AuthConfig with the given max_failed_attempts.
InitServicesWith(max_failed_attempts, config_file) ==
    InitServicesFor(NewAuthManager(max_failed_attempts), config_file)

InitServices ==
    InitServicesWith(DEFAULT_MAX_FAILED_ATTEMPTS, Some(DefaultRouterConfig))

\* RoutingTable::new() at the start of the clock.
InitRoutes ==
    /\ routes = [k \in {} |-> None]
    /\ unreachable_since = [k \in {} |-> 0]
    /\ now = 0
    /\ swept = FALSE
    /\ op = [name |-> "new"]

InitTable ==
    /\ InitServices
    /\ InitRoutes

\* RoutingTable::new() and the default configuration.
Init ==
    /\ InitTable
    /\ route_timeout = DEFAULT_ROUTE_TIMEOUT
    /\ garbage_collection_timeout = DEFAULT_GC_TIMEOUT
    /\ poison_reverse = FALSE

\* The incumbent an operation on `route` finds: Option<Route>.
Incumbent(tbl, route) ==
    IF KeyOf(route) \in DOMAIN tbl THEN Some(tbl[KeyOf(route)]) ELSE None

\* add_or_replace(route) with a route built by Route::new at this instant.
AddOrReplace(route) ==
    /\ routes' = add_or_replace(routes, route, now)
    /\ op' = [name |-> "add_or_replace",
              route |-> route,
              old |-> Incumbent(routes, route),
              ret |-> add_or_replace_ret(routes, route)]
    /\ unreachable_since' = StampMutation(unreachable_since, routes, routes')
    /\ UNCHANGED <<timers, poison_reverse, services, now, swept>>

InstallDirectRoute(destination, subnet_mask, interface) ==
    /\ routes' = install_direct_route(routes, destination, subnet_mask, interface, now)
    /\ op' = [name |-> "install_direct_route",
              route |-> new_direct(destination, subnet_mask, interface, now),
              old |-> Incumbent(routes,
                          new_direct(destination, subnet_mask, interface, now)),
              ret |-> add_or_replace_ret(routes,
                          new_direct(destination, subnet_mask, interface, now))]
    /\ unreachable_since' = StampMutation(unreachable_since, routes, routes')
    /\ UNCHANGED <<timers, poison_reverse, services, now, swept>>

\* RoutingTable::add_static_route at this instant.
AddStaticRoute(destination, subnet_mask, next_hop, metric, interface) ==
    /\ routes' = add_static_route(routes, destination, subnet_mask, next_hop,
                                  metric, interface, now)
    /\ op' = [name |-> "add_static_route",
              route |-> StaticRoute(destination, subnet_mask, next_hop, metric,
                                    interface, now),
              old |-> Incumbent(routes,
                          StaticRoute(destination, subnet_mask, next_hop, metric,
                                      interface, now)),
              ret |-> add_or_replace_ret(routes,
                          StaticRoute(destination, subnet_mask, next_hop, metric,
                                      interface, now))]
    /\ unreachable_since' = StampMutation(unreachable_since, routes, routes')
    /\ UNCHANGED <<timers, poison_reverse, services, now, swept>>

\* RoutingTable::remove_route
RemoveRoute(destination, subnet_mask) ==
    /\ routes' = remove_route(routes, destination, subnet_mask)
    /\ op' = [name |-> "remove_route",
              key |-> key(destination, subnet_mask),
              ret |-> key(destination, subnet_mask) \in DOMAIN routes]
    /\ unreachable_since' = StampMutation(unreachable_since, routes, routes')
    /\ UNCHANGED <<timers, poison_reverse, services, now, swept>>

\* RoutingTable::clear_source
ClearSource(source) ==
    /\ routes' = clear_source(routes, source)
    /\ op' = [name |-> "clear_source", source |-> source]
    /\ unreachable_since' = StampMutation(unreachable_since, routes, routes')
    /\ UNCHANGED <<timers, poison_reverse, services, now, swept>>

\* get_route / find_best_route for one address.  The order in which the
\* HashMap iterates depends on its hasher's random keys and on its history,
\* not on its content alone: any order may be the one a lookup meets.
GetRoute(destination) ==
    \E order \in IterationOrders(routes) :
        /\ op' = [name |-> "get_route",
                  destination |-> destination,
                  ret |-> get_route(routes, order, destination)]
        /\ UNCHANGED <<routes, timers, poison_reverse, services, now, swept, unreachable_since>>

\* The mutators of the table, with inputs drawn from the given sets: a
\* received route, a configured interface, a static route (with the given
\* metrics and with 1, the metric of a request that names none), the removal
\* of a route and of the routes of a source.
Mutate(prefixes, peers, next_hops, metric_values, interfaces) ==
    \/ \E r \in DynamicRoutes(prefixes, peers, metric_values, interfaces, now) :
            AddOrReplace(r)
    \/ \E p \in prefixes, i \in interfaces :
            InstallDirectRoute(p[1], p[2], i)
    \/ \E p \in prefixes, h \in next_hops, m \in metric_values \cup {1},
          i \in interfaces :
            AddStaticRoute(p[1], p[2], h, m, i)
    \/ \E p \in prefixes : RemoveRoute(p[1], p[2])
    \/ \E source \in {"Direct", "Static", "Dynamic"} : ClearSource(source)

---------------------------------------------------------------------------
(* Spec: source priority.  Two nested prefixes, every combination of next   *)
(* hop, metric and interface, at one instant.                              *)

NestedPrefixes ==
    {<<Net10, Mask16>>, <<Net10, Mask24>>}

Next ==
    \/ Mutate(NestedPrefixes, Peers, NextHops, Metrics, Interfaces)
    \/ \E a \in LookupAddresses : GetRoute(a)

Spec ==
    Init /\ [][Next]_vars

---------------------------------------------------------------------------
(* SpecLookup: lookup.  Three prefixes, two of them the same network, with  *)
(* reachable and unreachable entries of every source.                      *)

LookupMetrics ==
    {2, UNREACHABLE_METRIC}

NextLookup ==
    \/ Mutate(Prefixes, {PeerA}, {PeerA}, LookupMetrics, {"eth0"})
    \/ \E a \in LookupAddresses : GetRoute(a)

SpecLookup ==
    Init /\ [][NextLookup]_vars

---------------------------------------------------------------------------
(* Advertisements: the periodic update task of the daemon and the periodic *)
(* update sender of Router, step by step.                                   *)

InitAdvert ==
    /\ InitTable
    /\ route_timeout = DEFAULT_ROUTE_TIMEOUT
    /\ garbage_collection_timeout = DEFAULT_GC_TIMEOUT
    /\ poison_reverse \in BOOLEAN

\* The periodic update task start_router spawns (main.rs), and the
\* interfaces in the order of the configuration, in which its loop takes
\* them.
UpdateLoopTask ==
    <<"periodic_update">>

InterfaceSeq ==
    <<"eth0", "eth1">>

\* `held` is history: the table the routes of the packet were copied from.
IdleUpdateLoop ==
    [pc |-> "tick", interfaces |-> << >>, packet |-> None, held |-> None]

\* The task after its turn for the head of `interfaces`: the next
\* interface, or the wait for the next tick.
AfterTurn(interfaces) ==
    IF Len(interfaces) = 1
    THEN IdleUpdateLoop
    ELSE [IdleUpdateLoop EXCEPT !.pc = "routing_table", !.interfaces = Tail(interfaces)]

\* The first half of an interface's turn in the periodic update task when
\* the table iterates in `order`: under the table's read lock the routes for
\* the interface are copied.  Without routes the turn is over and nothing
\* is sent; otherwise the packet is built and the task awaits send_packet.
PeriodicUpdateReadIn(order) ==
    /\ UpdateLoopTask \in DOMAIN tasks
    /\ tasks[UpdateLoopTask].pc \in {"tick", "routing_table"}
    /\ LET interfaces == IF tasks[UpdateLoopTask].pc = "tick"
                         THEN InterfaceSeq
                         ELSE tasks[UpdateLoopTask].interfaces
           rs == get_routes_for_advertising(routes, order, Head(interfaces))
       IN
       /\ tasks' = [tasks EXCEPT
                      ![UpdateLoopTask] =
                          IF Len(rs) = 0
                          THEN AfterTurn(interfaces)
                          ELSE [pc |-> "send_packet",
                                interfaces |-> interfaces,
                                packet |-> Some(new_update(rs)),
                                held |-> Some(routes)]]
       /\ op' = [name |-> "periodic_update",
                 step |-> "routing_table",
                 interfaces |-> {Head(interfaces)},
                 packet |-> None]
    /\ UNCHANGED <<table_state, metrics, neighbors, routes_v6, auth, lockouts, auth_active,
                   config_manager, network, event_bus, metrics_route_count>>

PeriodicUpdateRead ==
    \E order \in IterationOrders(routes) : PeriodicUpdateReadIn(order)

\* The second half: one send_packet of the packet.
PeriodicUpdateSend ==
    /\ UpdateLoopTask \in DOMAIN tasks
    /\ tasks[UpdateLoopTask].pc = "send_packet"
    /\ tasks' = [tasks EXCEPT
                   ![UpdateLoopTask] = AfterTurn(tasks[UpdateLoopTask].interfaces)]
    /\ op' = [name |-> "periodic_update",
              step |-> "send_packet",
              interfaces |-> {Head(tasks[UpdateLoopTask].interfaces)},
              packet |-> tasks[UpdateLoopTask].packet,
              held |-> tasks[UpdateLoopTask].held]
    /\ UNCHANGED <<table_state, metrics, neighbors, routes_v6, auth, lockouts, auth_active,
                   config_manager, network, event_bus, metrics_route_count>>

\* Router::periodic_update_sender drops the neighbors last seen
\* NEIGHBOR_TIMEOUT seconds ago or earlier.
NEIGHBOR_TIMEOUT ==
    180

retain_neighbors(nb, t) ==
    [p \in {q \in DOMAIN nb : t - nb[q].last_seen < NEIGHBOR_TIMEOUT} |-> nb[p]]

\* The tasks of Router::run_with_real_networking: one packet receiver per
\* socket, the periodic update sender, and the function itself.
ReceiverTask(interface_name) ==
    <<"packet_receiver", interface_name>>

UpdateTask ==
    <<"periodic_update_sender">>

RunTask ==
    <<"run_with_real_networking">>

\* run_with_real_networking(update_interval) up to its select!: running is
\* set, the shutdown channel is created and its sender stored in the
\* router, a receiver is spawned per socket and the update sender once.  A
\* receiver waits in recv_from; the update sender has yet to create its
\* interval.  The record of RunTask holds the router's `running`.
RunWithRealNetworking(update_interval) ==
    /\ DOMAIN tasks = {}
    /\ tasks' = [id \in {ReceiverTask(i) : i \in Interfaces} \cup {UpdateTask, RunTask} |->
                    IF id = RunTask
                    THEN [pc |-> "select", running |-> TRUE]
                    ELSE IF id = UpdateTask
                    THEN [pc |-> "interval", update_interval |-> update_interval,
                          dropped |-> {}, packet |-> None, sockets |-> {},
                          held |-> None]
                    ELSE [pc |-> "recv_from", packet |-> None, sender |-> None,
                          aborted |-> FALSE]]
    /\ op' = [name |-> "run_with_real_networking"]
    /\ UNCHANGED <<table_state, metrics, neighbors, routes_v6, auth, lockouts, auth_active,
                   config_manager, network, event_bus, metrics_route_count>>

\* periodic_update_sender before its loop: tokio::time::interval panics
\* when the period is zero, which ends the task; otherwise the task waits
\* for the first tick.
PeriodicUpdateSenderInterval ==
    /\ UpdateTask \in DOMAIN tasks
    /\ tasks[UpdateTask].pc = "interval"
    /\ tasks' = [tasks EXCEPT
                   ![UpdateTask].pc =
                       IF tasks[UpdateTask].update_interval = 0
                       THEN "panicked" ELSE "tick"]
    /\ op' = [name |-> "periodic_update_sender", step |-> "interval",
              interfaces |-> {}, packet |-> None]
    /\ UNCHANGED <<table_state, metrics, neighbors, routes_v6, auth, lockouts, auth_active,
                   config_manager, network, event_bus, metrics_route_count>>

\* run_with_real_networking from its select! to its return.  While the
\* call is pending it borrows the router mutably, so that shutdown cannot
\* be called and the stored sender cannot be dropped: the branch of the
\* shutdown channel never completes.  The other branch, the update
\* sender's JoinHandle, completes when that task has ended.  Then every
\* receiver handle is aborted and running is cleared.  abort cancels a task
\* that is suspended at an await; a task that is being polled by another
\* worker thread goes on to the next await at which it suspends: `polled`
\* are the receivers that were being polled.
RunWithRealNetworkingReturn(polled) ==
    /\ RunTask \in DOMAIN tasks
    /\ tasks[RunTask].pc = "select"
    /\ tasks[UpdateTask].pc = "panicked"
    /\ tasks' = [id \in {ReceiverTask(i) : i \in polled} \cup {UpdateTask, RunTask} |->
                    IF id = RunTask
                    THEN [pc |-> "returned", running |-> FALSE]
                    ELSE IF id = UpdateTask
                    THEN tasks[id]
                    ELSE [tasks[id] EXCEPT !.aborted = TRUE]]
    /\ op' = [name |-> "run_with_real_networking_return"]
    /\ UNCHANGED <<table_state, metrics, neighbors, routes_v6, auth, lockouts, auth_active,
                   config_manager, network, event_bus, metrics_route_count>>

\* An aborted receiver suspends at an await and is cancelled there.
PacketReceiverCancelled(interface_name) ==
    LET id == ReceiverTask(interface_name) IN
    /\ id \in DOMAIN tasks
    /\ tasks[id].aborted
    /\ tasks' = [x \in DOMAIN tasks \ {id} |-> tasks[x]]
    /\ op' = [name |-> "packet_receiver_cancelled", interface |-> interface_name]
    /\ UNCHANGED <<table_state, metrics, neighbors, routes_v6, auth, lockouts, auth_active,
                   config_manager, network, event_bus, metrics_route_count>>

\* The caller drops the pending future of run_with_real_networking at its
\* select!, as tokio::time::timeout does when its time is over.  Nothing
\* after the select! runs: the handles are dropped, not aborted, so the
\* receivers and the update sender stay alive, detached; running stays set;
\* the sender stays stored in the router and the receiving end of the
\* channel is dropped with the future.  The router is no longer borrowed.
RunWithRealNetworkingDropped ==
    /\ RunTask \in DOMAIN tasks
    /\ tasks[RunTask].pc = "select"
    /\ tasks' = [tasks EXCEPT ![RunTask].pc = "dropped"]
    /\ op' = [name |-> "run_with_real_networking_dropped"]
    /\ UNCHANGED <<table_state, metrics, neighbors, routes_v6, auth, lockouts, auth_active,
                   config_manager, network, event_bus, metrics_route_count>>

\* Router::shutdown.  It takes the router mutably, so it runs when no call
\* of run_with_real_networking is pending: before the first, when there is
\* no sender, or after one has returned or has been dropped, when the
\* receiving end of the channel has been dropped and send fails, which is
\* ignored.  running is cleared; no task is aborted.
Shutdown ==
    /\ RunTask \in DOMAIN tasks => tasks[RunTask].pc \in {"returned", "dropped"}
    /\ tasks' = IF RunTask \in DOMAIN tasks
                THEN [tasks EXCEPT ![RunTask].running = FALSE]
                ELSE tasks
    /\ op' = [name |-> "shutdown",
              sender |-> IF RunTask \in DOMAIN tasks THEN Some("closed") ELSE None]
    /\ UNCHANGED <<table_state, metrics, neighbors, routes_v6, auth, lockouts, auth_active,
                   config_manager, network, event_bus, metrics_route_count>>

\* Router::periodic_update_sender, from the tick of its interval to the end
\* of the first block: under the neighbors' write lock the neighbors that
\* have been silent too long are dropped.  `dropped` is history: the peers
\* this round dropped.
PeriodicUpdateSender ==
    /\ UpdateTask \in DOMAIN tasks
    /\ tasks[UpdateTask].pc = "tick"
    /\ neighbors' = retain_neighbors(neighbors, now)
    /\ tasks' = [tasks EXCEPT
                   ![UpdateTask] = [@ EXCEPT
                                       !.pc = "sweep",
                                       !.dropped = DOMAIN neighbors \ DOMAIN neighbors']]
    /\ op' = [name |-> "periodic_update_sender", step |-> "neighbors",
              interfaces |-> {}, packet |-> None]
    /\ UNCHANGED <<table_state, metrics, routes_v6, auth, lockouts, auth_active,
                   config_manager, network, event_bus, metrics_route_count>>

\* The second block: both sweeps under the table's write lock.
PeriodicUpdateSenderSweep ==
    /\ UpdateTask \in DOMAIN tasks
    /\ tasks[UpdateTask].pc = "sweep"
    /\ routes' = maintain(routes, now, route_timeout, garbage_collection_timeout)
    /\ unreachable_since' = StampSweep(unreachable_since, routes, routes', now)
    /\ tasks' = [tasks EXCEPT ![UpdateTask].pc = "get_all_routes"]
    /\ op' = [name |-> "periodic_update_sender", step |-> "sweep",
              interfaces |-> {}, packet |-> None]
    /\ UNCHANGED <<timers, poison_reverse, now, swept, metrics, neighbors,
                   routes_v6, auth, lockouts, auth_active, config_manager, network, event_bus,
                   metrics_route_count>>

\* The third block: all routes are copied under the table's read lock.  An
\* empty table ends the round; otherwise one packet is built for every
\* socket.  `held` is history: the table the routes were copied from.
PeriodicUpdateSenderRead ==
    /\ UpdateTask \in DOMAIN tasks
    /\ tasks[UpdateTask].pc = "get_all_routes"
    /\ \E order \in IterationOrders(routes) :
          LET rs == get_all_routes(routes, order) IN
          tasks' = [tasks EXCEPT
                      ![UpdateTask] =
                          IF Len(rs) = 0
                          THEN [@ EXCEPT !.pc = "tick"]
                          ELSE [@ EXCEPT !.pc = "send_to",
                                         !.packet = Some(new_update(rs)),
                                         !.sockets = Interfaces,
                                         !.held = Some(routes)]]
    /\ op' = [name |-> "periodic_update_sender", step |-> "get_all_routes",
              interfaces |-> {}, packet |-> None]
    /\ UNCHANGED <<table_state, metrics, neighbors, routes_v6, auth, lockouts, auth_active,
                   config_manager, network, event_bus, metrics_route_count>>

\* One send_to of the loop over the sockets, which the HashMap yields in any
\* order; after the last the task waits for the next tick.
PeriodicUpdateSenderSend(interface_name) ==
    /\ UpdateTask \in DOMAIN tasks
    /\ tasks[UpdateTask].pc = "send_to"
    /\ interface_name \in tasks[UpdateTask].sockets
    /\ tasks' = [tasks EXCEPT
                   ![UpdateTask] =
                       IF @.sockets = {interface_name}
                       THEN [@ EXCEPT !.pc = "tick", !.packet = None, !.sockets = {},
                                      !.held = None]
                       ELSE [@ EXCEPT !.sockets = @ \ {interface_name}]]
    /\ op' = [name |-> "periodic_update_sender", step |-> "send_to",
              interfaces |-> {interface_name},
              packet |-> tasks[UpdateTask].packet,
              held |-> tasks[UpdateTask].held]
    /\ UNCHANGED <<table_state, metrics, neighbors, routes_v6, auth, lockouts, auth_active,
                   config_manager, network, event_bus, metrics_route_count>>

AdvertMetrics ==
    {2}

BulkDestination(i) ==
    <<10, 0, i, 0>>

\* The orders of a table of n keys are too many to enumerate: the n
\* rotations of one order stand for them.  Neither the number of entries of
\* an advertisement nor the set of routes in it depends on the order.
BulkOrders(tbl) ==
    LET n == Cardinality(DOMAIN tbl) IN
    IF n = 0
    THEN {<< >>}
    ELSE {[i \in 1..n |-> key(BulkDestination((i - 1 + s) % n), Mask24)] :
            s \in 0..(n - 1)}

---------------------------------------------------------------------------
(* SpecAging: route lifecycle.  Routes are learned and refreshed from one   *)
(* peer while the clock advances one maintenance interval at a time; the    *)
(* maintenance task runs at every instant the clock reaches.                *)

\* The table's own defaults, and the timeout with the configuration's
\* garbage collection time.
TimerConfigs ==
    {<<DEFAULT_ROUTE_TIMEOUT, DEFAULT_GC_TIMEOUT>>,
     <<DEFAULT_ROUTE_TIMEOUT, CONFIG_GC_TIMEOUT>>}

InitAging ==
    /\ InitTable
    /\ \E c \in TimerConfigs :
          /\ route_timeout = c[1]
          /\ garbage_collection_timeout = c[2]
    /\ poison_reverse = FALSE

\* The table maintenance task of start_router, one round: process_timeouts,
\* garbage_collect and update_route_count under one write lock.  The task's
\* interval ticks once per MaintenanceInterval: `swept` says that the tick of
\* this instant has been taken.
MaintenanceTick ==
    /\ ~swept
    /\ routes' = maintain(routes, now, route_timeout, garbage_collection_timeout)
    /\ metrics_route_count' = route_count(routes')
    /\ unreachable_since' = StampSweep(unreachable_since, routes, routes', now)
    /\ swept' = TRUE
    /\ op' = [name |-> "maintenance"]
    /\ UNCHANGED <<timers, poison_reverse, metrics, neighbors, routes_v6, auth,
                   lockouts, auth_active, config_manager, network, tasks, event_bus, now>>

\* The clock reaches the maintenance task's next tick.
Advance ==
    /\ swept
    /\ now < MaxTicks * MaintenanceInterval
    /\ now' = now + MaintenanceInterval
    /\ swept' = FALSE
    /\ op' = [name |-> "advance"]
    /\ UNCHANGED <<routes, timers, poison_reverse, services, unreachable_since>>

AgingMetrics ==
    {2}

NextAging ==
    \/ \E r \in DynamicRoutes(NestedPrefixes, {PeerA}, AgingMetrics, {"eth1"}, now) :
            AddOrReplace(r)
    \/ MaintenanceTick
    \/ Advance
    \/ \E a \in LookupAddresses : GetRoute(a)

SpecAging ==
    InitAging /\ [][NextAging]_vars

---------------------------------------------------------------------------
(* Response processing                                                     *)

\* RouterConfig::default().max_hop_count
MAX_HOP_COUNT ==
    15

Min(a, b) ==
    IF a <= b THEN a ELSE b

\* The JSON codec.  A document is modelled as the tree of its members, each
\* scalar as the text serde_json writes for it: a number in decimal digits,
\* an address in dotted decimal, a command as its variant's name.

\* Serialize for RipEntry
entry_to_json(entry) ==
    [address_family |-> Decimal(entry.address_family),
     route_tag |-> Decimal(entry.route_tag),
     ip_address |-> ipv4_to_string(entry.ip_address),
     subnet_mask |-> ipv4_to_string(entry.subnet_mask),
     next_hop |-> ipv4_to_string(entry.next_hop),
     metric |-> u32_to_string(entry.metric)]

\* RipPacket::to_json
to_json(packet) ==
    Ok([command |-> packet.command,
        version |-> Decimal(packet.version),
        reserved |-> Decimal(packet.reserved),
        entries |-> [i \in 1..Len(packet.entries) |->
                        entry_to_json(packet.entries[i])]])

\* InterfaceConfig::default().mtu, the size of receive_packet's buffer.
DEFAULT_MTU ==
    1500

\* What serde_json writes around the members of a packet and of an entry.
PacketFrame ==
    "{\"command\":\"\",\"version\":,\"reserved\":,\"entries\":[]}"

EntryFrame ==
    "{\"address_family\":,\"route_tag\":,\"ip_address\":\"\",\"subnet_mask\":\"\",\"next_hop\":\"\",\"metric\":}"

RECURSIVE SumLen(_, _)
SumLen(f, n) ==
    IF n = 0 THEN 0 ELSE f[n] + SumLen(f, n - 1)

\* The number of bytes of the text serde_json::to_string writes for an entry.
entry_json_len(j) ==
    Len(EntryFrame) + Len(j.address_family) + Len(j.route_tag) + Len(j.ip_address)
        + Len(j.subnet_mask) + Len(j.next_hop) + Len(j.metric)

\* The number of bytes of the text of a packet: the entries are separated
\* by commas.
json_len(json) ==
    LET n == Len(json.entries) IN
    Len(PacketFrame) + Len(json.command) + Len(json.version) + Len(json.reserved)
        + SumLen([i \in 1..n |-> entry_json_len(json.entries[i])], n)
        + (IF n = 0 THEN 0 ELSE n - 1)

\* NetworkInterface::receive_packet reads a datagram into a buffer of mtu
\* bytes: a longer text is cut there, and from_json rejects what is left.
fits_mtu(json) ==
    json_len(json) <= DEFAULT_MTU

\* RipPacket::validate: Ok(()) is TRUE, Err is FALSE.
validate(packet) ==
    /\ packet.version = 2
    /\ \A i \in DOMAIN packet.entries : ~u32_gt(packet.entries[i].metric, 16)

\* The update with the received route installed as a Static one.
update_route_as_static(tbl, destination, subnet_mask, next_hop, metric, interface, learned_from, t) ==
    LET k == key(destination, subnet_mask)
        route == NewRoute(destination, subnet_mask, next_hop, metric, interface,
                          "Static", learned_from, t)
    IN  IF k \notin DOMAIN tbl
        THEN IF u32_lt(metric, UNREACHABLE_METRIC)
             THEN [x \in DOMAIN tbl \cup {k} |-> IF x = k THEN route ELSE tbl[x]]
             ELSE tbl
        ELSE IF tbl[k].source # "Dynamic"
        THEN tbl
        ELSE IF tbl[k].next_hop = next_hop /\ tbl[k].interface = interface
        THEN [tbl EXCEPT ![k].metric = metric, ![k].last_updated = t]
        ELSE IF u32_lt(metric, tbl[k].metric)
        THEN [tbl EXCEPT ![k] = route]
        ELSE tbl

\* RoutingTable::update_route, which process_rip_packet calls, is not in the
\* source tree: routing_table.rs defines no such method.  This is the update
\* for a received route as section 4.3 of the specification states it.
\* Decided per (D, M): without an incumbent the route is installed as Dynamic
\* when its metric is below infinity; a Direct or Static incumbent is kept; a
\* Dynamic incumbent on the same next hop and interface is refreshed and
\* takes the metric; a Dynamic incumbent on another path is replaced by a
\* strictly smaller metric only.
update_route(tbl, destination, subnet_mask, next_hop, metric, interface, learned_from, t) ==
    LET k == key(destination, subnet_mask)
        route == NewRoute(destination, subnet_mask, next_hop, metric, interface,
                          "Dynamic", learned_from, t)
    IN  IF k \notin DOMAIN tbl
        THEN IF u32_lt(metric, UNREACHABLE_METRIC)
             THEN [x \in DOMAIN tbl \cup {k} |-> IF x = k THEN route ELSE tbl[x]]
             ELSE tbl
        ELSE IF tbl[k].source # "Dynamic"
        THEN tbl
        ELSE IF tbl[k].next_hop = next_hop /\ tbl[k].interface = interface
        THEN [tbl EXCEPT ![k].metric = metric, ![k].last_updated = t]
        ELSE IF u32_lt(metric, tbl[k].metric)
        THEN [tbl EXCEPT ![k] = route]
        ELSE tbl

\* The metric process_rip_packet computes for an entry before it calls the
\* table: min(route.metric + 1, config.max_hop_count).
learned_metric(metric) == u32_min(u32_succ(metric), MAX_HOP_COUNT)

\* The metrics the loop of process_rip_packet hands to update_route, entry by
\* entry; a Request hands over nothing.
handed_metrics(packet) ==
    IF packet.command = "Response"
    THEN [i \in DOMAIN packet.entries |-> learned_metric(packet.entries[i].metric)]
    ELSE << >>

RECURSIVE ProcessEntries(_, _, _, _, _, _)
\* The loop of process_rip_packet over the entries from the i-th on:
\* metric = min(route.metric + 1, max_hop_count), the sender is the next hop
\* and the peer the route is learned from.
ProcessEntries(tbl, entries, i, sender_ip, interface_name, t) ==
    IF i > Len(entries)
    THEN tbl
    ELSE ProcessEntries(
            update_route(tbl, entries[i].ip_address, entries[i].subnet_mask,
                         sender_ip,
                         learned_metric(entries[i].metric),
                         interface_name, Some(sender_ip), t),
            entries, i + 1, sender_ip, interface_name, t)

\* The bool the table's update returns: true when the entry was installed,
\* replaced or took another metric.
update_route_ret(tbl, destination, subnet_mask, next_hop, metric, interface) ==
    LET k == key(destination, subnet_mask) IN
    IF k \notin DOMAIN tbl
    THEN u32_lt(metric, UNREACHABLE_METRIC)
    ELSE IF tbl[k].source # "Dynamic"
    THEN FALSE
    ELSE IF tbl[k].next_hop = next_hop /\ tbl[k].interface = interface
    THEN metric # tbl[k].metric
    ELSE u32_lt(metric, tbl[k].metric)

RECURSIVE ProcessEntriesChanges(_, _, _, _, _, _)
\* How many times the loop of process_rip_packet calls
\* increment_route_changes from the i-th entry on.
ProcessEntriesChanges(tbl, entries, i, sender_ip, interface_name, t) ==
    IF i > Len(entries)
    THEN 0
    ELSE (IF update_route_ret(tbl, entries[i].ip_address, entries[i].subnet_mask,
                              sender_ip,
                              learned_metric(entries[i].metric),
                              interface_name)
          THEN 1 ELSE 0)
         + ProcessEntriesChanges(
              update_route(tbl, entries[i].ip_address, entries[i].subnet_mask,
                           sender_ip,
                           learned_metric(entries[i].metric),
                           interface_name, Some(sender_ip), t),
              entries, i + 1, sender_ip, interface_name, t)

process_rip_packet_changes(tbl, packet, sender_ip, interface_name, t) ==
    IF packet.command = "Response"
    THEN ProcessEntriesChanges(tbl, packet.entries, 1, sender_ip, interface_name, t)
    ELSE 0

\* Router::process_rip_packet: a Response updates the table entry by entry,
\* a Request leaves it alone.
process_rip_packet(tbl, packet, sender_ip, interface_name, t) ==
    IF packet.command = "Response"
    THEN ProcessEntries(tbl, packet.entries, 1, sender_ip, interface_name, t)
    ELSE tbl

\* What process_rip_packet writes into the neighbor registry for the sender,
\* whatever the command.  RouterInfo::router_id is a fresh random UUID that
\* nothing reads; the record leaves it out.
register_neighbor(nb, packet, sender_ip, interface_name, t) ==
    [p \in DOMAIN nb \cup {sender_ip} |->
        IF p = sender_ip
        THEN [last_seen |-> t,
              interface |-> interface_name,
              routes_count |-> Len(packet.entries)]
        ELSE nb[p]]

\* Router::packet_receiver from recv_from to the first await of
\* process_rip_packet, for a datagram whose JSON text parses to `packet`:
\* the packet is counted; one that validate rejects is counted as dropped
\* and the task is back in recv_from; an accepted one waits for the
\* neighbors' lock.
PacketReceiver(packet, sender_ip, interface_name) ==
    LET id == ReceiverTask(interface_name) IN
    /\ id \in DOMAIN tasks
    /\ tasks[id].pc = "recv_from"
    /\ metrics.packets_received < MaxPackets
    /\ metrics' = [metrics EXCEPT
                     !.packets_received = @ + 1,
                     !.packets_dropped = IF validate(packet) THEN @ ELSE @ + 1]
    /\ tasks' = [tasks EXCEPT
                   ![id] = IF validate(packet)
                           THEN [@ EXCEPT !.pc = "neighbors",
                                          !.packet = Some(packet),
                                          !.sender = Some(sender_ip)]
                           ELSE @]
    /\ op' = [name |-> "packet_receiver",
              step |-> "recv_from",
              packet |-> packet,
              sender |-> sender_ip,
              interface |-> interface_name,
              validated |-> validate(packet)]
    /\ UNCHANGED <<table_state, neighbors, routes_v6, auth, lockouts, auth_active,
                   config_manager, network, event_bus, metrics_route_count>>

\* Router::packet_receiver for a datagram that is not UTF-8 or whose text
\* from_json rejects: counted as received and as dropped.
PacketReceiverUndecodable(sender_ip, interface_name) ==
    LET id == ReceiverTask(interface_name) IN
    /\ id \in DOMAIN tasks
    /\ tasks[id].pc = "recv_from"
    /\ metrics.packets_received < MaxPackets
    /\ metrics' = [metrics EXCEPT !.packets_received = @ + 1,
                                  !.packets_dropped = @ + 1]
    /\ op' = [name |-> "packet_receiver_undecodable",
              sender |-> sender_ip,
              interface |-> interface_name]
    /\ UNCHANGED <<table_state, neighbors, subsystems>>

\* process_rip_packet's first block and what follows it up to the await of
\* the table's lock: the sender is written into the neighbor registry under
\* the neighbors' write lock; for a Response the update is counted and the
\* task waits for the table, for a Request the task is back in recv_from.
ProcessRipPacketNeighbors(interface_name) ==
    LET id == ReceiverTask(interface_name) IN
    /\ id \in DOMAIN tasks
    /\ tasks[id].pc = "neighbors"
    /\ LET packet == tasks[id].packet[1]
           sender_ip == tasks[id].sender[1]
       IN
       /\ neighbors' = register_neighbor(neighbors, packet, sender_ip,
                                         interface_name, now)
       /\ metrics' = [metrics EXCEPT
                        !.routing_updates_received =
                            IF packet.command = "Response" THEN @ + 1 ELSE @]
       /\ tasks' = [tasks EXCEPT
                      ![id] = IF packet.command = "Response"
                              THEN [@ EXCEPT !.pc = "routing_table"]
                              ELSE [@ EXCEPT !.pc = "recv_from",
                                             !.packet = None,
                                             !.sender = None]]
       /\ op' = [name |-> "packet_receiver",
                 step |-> "neighbors",
                 packet |-> packet,
                 sender |-> sender_ip,
                 interface |-> interface_name,
                 validated |-> TRUE]
    /\ UNCHANGED <<table_state, routes_v6, auth, lockouts, auth_active, config_manager,
                   network, event_bus, metrics_route_count>>

\* The Response arm of process_rip_packet: under the table's write lock the
\* entries update the table one by one and each change is counted.
ProcessRipPacketRoutes(interface_name) ==
    LET id == ReceiverTask(interface_name) IN
    /\ id \in DOMAIN tasks
    /\ tasks[id].pc = "routing_table"
    /\ LET packet == tasks[id].packet[1]
           sender_ip == tasks[id].sender[1]
       IN
       /\ routes' = process_rip_packet(routes, packet, sender_ip,
                                       interface_name, now)
       /\ metrics' = [metrics EXCEPT
                        !.route_changes =
                            @ + process_rip_packet_changes(routes, packet, sender_ip,
                                                           interface_name, now)]
       /\ op' = [name |-> "packet_receiver",
                 step |-> "routing_table",
                 packet |-> packet,
                 sender |-> sender_ip,
                 interface |-> interface_name,
                 validated |-> TRUE,
                 handed |-> handed_metrics(packet)]
    /\ tasks' = [tasks EXCEPT
                   ![id] = [@ EXCEPT !.pc = "recv_from", !.packet = None,
                                     !.sender = None]]
    /\ unreachable_since' = StampMutation(unreachable_since, routes, routes')
    /\ UNCHANGED <<timers, poison_reverse, now, swept, neighbors, routes_v6, auth,
                   lockouts, auth_active, config_manager, network, event_bus,
                   metrics_route_count>>

RECURSIVE HandleEntries(_, _, _, _, _, _)
\* handle_rip_response, which the daemon's receive loop calls (main.rs), is
\* not in the source tree either.  This is section 4.3 of the
\* specification: the distance-vector rules applied to the entries of a Response from the
\* i-th on: the metric is min(m + 1, 16), the next hop is the entry's, or the
\* sender when the entry leaves it unspecified.
HandleEntries(tbl, entries, i, sender_ip, interface_name, t) ==
    IF i > Len(entries)
    THEN tbl
    ELSE HandleEntries(
            update_route(tbl, entries[i].ip_address, entries[i].subnet_mask,
                         IF entries[i].next_hop = UNSPECIFIED
                         THEN sender_ip ELSE entries[i].next_hop,
                         u32_min(u32_succ(entries[i].metric), UNREACHABLE_METRIC),
                         interface_name, Some(sender_ip), t),
            entries, i + 1, sender_ip, interface_name, t)

RECURSIVE HandleEntriesChanges(_, _, _, _, _, _)
\* The number of entries from the i-th on whose update changes a route.
HandleEntriesChanges(tbl, entries, i, sender_ip, interface_name, t) ==
    IF i > Len(entries)
    THEN 0
    ELSE (IF update_route_ret(tbl, entries[i].ip_address, entries[i].subnet_mask,
                              IF entries[i].next_hop = UNSPECIFIED
                              THEN sender_ip ELSE entries[i].next_hop,
                              u32_min(u32_succ(entries[i].metric), UNREACHABLE_METRIC),
                              interface_name)
          THEN 1 ELSE 0)
         + HandleEntriesChanges(
              update_route(tbl, entries[i].ip_address, entries[i].subnet_mask,
                           IF entries[i].next_hop = UNSPECIFIED
                           THEN sender_ip ELSE entries[i].next_hop,
                           u32_min(u32_succ(entries[i].metric), UNREACHABLE_METRIC),
                           interface_name, Some(sender_ip), t),
              entries, i + 1, sender_ip, interface_name, t)

\* handle_rip_response, the table it leaves.
handle_rip_response(tbl, packet, sender_ip, interface_name, t) ==
    HandleEntries(tbl, packet.entries, 1, sender_ip, interface_name, t)

---------------------------------------------------------------------------
(* SpecEngine: one prefix under every writer of the table (interface       *)
(* configuration, the admin API, received routes, the two sweeps) while the *)
(* clock advances.                                                          *)

\* RoutingTable::process_timeouts, called on its own.
ProcessTimeouts ==
    /\ routes' = process_timeouts(routes, now, route_timeout)
    /\ unreachable_since' = StampSweep(unreachable_since, routes, routes', now)
    /\ op' = [name |-> "process_timeouts"]
    /\ UNCHANGED <<timers, poison_reverse, services, now, swept>>

\* RoutingTable::garbage_collect, called on its own.
GarbageCollect ==
    /\ routes' = garbage_collect(routes, now, garbage_collection_timeout)
    /\ unreachable_since' = StampSweep(unreachable_since, routes, routes', now)
    /\ op' = [name |-> "garbage_collect"]
    /\ UNCHANGED <<timers, poison_reverse, services, now, swept>>

\* Time passes between two calls.
Elapse ==
    /\ now < MaxTicks * MaintenanceInterval
    /\ now' = now + MaintenanceInterval
    /\ op' = [name |-> "elapse"]
    /\ UNCHANGED <<routes, timers, poison_reverse, services, swept, unreachable_since>>

EnginePrefixes ==
    {<<Net10, Mask16>>}

\* Metrics of received routes: a better, an equal and an unreachable one,
\* and the greatest a u32 holds.
EngineMetrics ==
    {1, 2, UNREACHABLE_METRIC, U32_MAX}

\* Metrics of static routes: the smallest create_route passes on, and one
\* beyond infinity.
StaticMetrics ==
    {1, 17}

NextEngine ==
    \/ \E r \in DynamicRoutes(EnginePrefixes, Peers, EngineMetrics, Interfaces, now) :
            AddOrReplace(r)
    \/ \E p \in EnginePrefixes : InstallDirectRoute(p[1], p[2], "eth0")
    \/ \E p \in EnginePrefixes, h \in NextHops, m \in StaticMetrics :
            AddStaticRoute(p[1], p[2], h, m, "eth0")
    \/ ProcessTimeouts
    \/ GarbageCollect
    \/ Elapse

SpecEngine ==
    InitAging /\ [][NextEngine]_vars

---------------------------------------------------------------------------
(* SpecReceive: datagrams from two peers, with valid and invalid entries,   *)
(* reach the packet receiver of an interface of the router (router.rs),     *)
(* which handles each in up to three steps.                                 *)

\* A valid entry; a valid entry of an unreachable route; a destination with
\* bits outside its mask; a mask that is not contiguous; a metric above 16.
ReceivedEntries ==
    {[address_family |-> 2, route_tag |-> 0, ip_address |-> d,
      subnet_mask |-> m, next_hop |-> UNSPECIFIED, metric |-> x] :
        <<d, m, x>> \in {<<Net10, Mask16, 1>>,
                         <<Net10, Mask16, 16>>,
                         <<Host10, Mask24, 1>>,
                         <<Net10, <<255, 0, 255, 0>>, 1>>,
                         <<Net10, Mask24, 17>>}}

ReceivedPackets ==
    {[command |-> c, version |-> v, reserved |-> 0, entries |-> es] :
        c \in {"Request", "Response"},
        v \in {1, 2},
        es \in UNION {[1..n -> ReceivedEntries] : n \in 1..MaxEntries}}

NextReceive ==
    \/ RunWithRealNetworking(DEFAULT_UPDATE_INTERVAL)
    \/ \E packet \in ReceivedPackets, sender \in Peers :
            PacketReceiver(packet, sender, "eth1")
    \/ \E sender \in Peers : PacketReceiverUndecodable(sender, "eth1")
    \/ ProcessRipPacketNeighbors("eth1")
    \/ ProcessRipPacketRoutes("eth1")

SpecReceive ==
    Init /\ [][NextReceive]_vars

---------------------------------------------------------------------------
(* The receive loop start_router spawns for each interface (main.rs), step  *)
(* by step.  A turn for a Request reads the table under its read lock and   *)
(* then sends the reply; a turn for a Response calls handle_rip_response,   *)
(* which updates the table and returns the changed routes, and then         *)
(* publishes, one by one, a route event for each of them.                   *)
(* `event_bus.published` is what a subscriber has received,                 *)
(* `event_bus.mutated` is history: the event of each changed route in the   *)
(* order of the table's mutations.                                          *)

\* RouteEvent::from_parts
RouteEvent(route) ==
    [destination |-> ipv4_to_string(route.destination),
     subnet_mask |-> ipv4_to_string(route.subnet_mask),
     next_hop |-> ipv4_to_string(route.next_hop),
     metric |-> route.metric,
     interface |-> route.interface,
     source |-> route.source]

RECURSIVE HandleEntriesRoutes(_, _, _, _, _, _)
\* The routes handle_rip_response returns: for each entry from the i-th on
\* whose update changed a route, the route as the update left it.
HandleEntriesRoutes(tbl, entries, i, sender_ip, interface_name, t) ==
    IF i > Len(entries)
    THEN << >>
    ELSE LET updated == HandleEntries(tbl, <<entries[i]>>, 1, sender_ip,
                                      interface_name, t)
             k == key(entries[i].ip_address, entries[i].subnet_mask)
         IN (IF HandleEntriesChanges(tbl, <<entries[i]>>, 1, sender_ip,
                                     interface_name, t) = 1
                  /\ k \in DOMAIN updated
             THEN <<updated[k]>> ELSE << >>)
            \o HandleEntriesRoutes(updated, entries, i + 1, sender_ip,
                                   interface_name, t)

ReceiveTask(interface_name) ==
    <<"receive", interface_name>>

IdleReceiveLoop ==
    [pc |-> "receive_packet", packet |-> None, sender |-> None, reply |-> None,
     held |-> None, routes |-> << >>]

\* start_router spawns one receive loop per interface.
SpawnReceiveLoops ==
    /\ DOMAIN tasks = {}
    /\ tasks' = [id \in {ReceiveTask(i) : i \in Interfaces} |-> IdleReceiveLoop]
    /\ op' = [name |-> "spawn_receive_loops"]
    /\ UNCHANGED <<table_state, metrics, neighbors, routes_v6, auth, lockouts, auth_active,
                   config_manager, network, event_bus, metrics_route_count>>

\* start_router spawns the periodic update task and one receive loop per
\* interface.
SpawnRipTasks ==
    /\ DOMAIN tasks = {}
    /\ tasks' = [id \in {UpdateLoopTask} \cup {ReceiveTask(i) : i \in Interfaces} |->
                    IF id = UpdateLoopTask THEN IdleUpdateLoop ELSE IdleReceiveLoop]
    /\ op' = [name |-> "spawn_rip_tasks"]
    /\ UNCHANGED <<table_state, metrics, neighbors, routes_v6, auth, lockouts, auth_active,
                   config_manager, network, event_bus, metrics_route_count>>

\* The first step of a turn of the loop, for the datagram a peer's
\* send_packet writes for `packet`.  receive_packet returns Err for a text
\* longer than its buffer and for a packet validate rejects, and the loop
\* only logs it and sleeps; an accepted packet is counted, and the task
\* waits for the table's read lock (Request) or enters handle_rip_response
\* (Response).
ReceiveLoop(packet, sender_ip, interface_name) ==
    LET id == ReceiveTask(interface_name)
        accepted == fits_mtu(to_json(packet).value) /\ validate(packet)
    IN
    /\ id \in DOMAIN tasks
    /\ tasks[id].pc = "receive_packet"
    /\ accepted => metrics.packets_received < MaxPackets
    /\ metrics' = IF accepted
                  THEN [metrics EXCEPT !.packets_received = @ + 1]
                  ELSE metrics
    /\ tasks' = [tasks EXCEPT
                   ![id] = IF ~accepted
                           THEN @
                           ELSE [@ EXCEPT
                                   !.pc = IF packet.command = "Request"
                                          THEN "routing_table"
                                          ELSE "handle_rip_response",
                                   !.packet = Some(packet),
                                   !.sender = Some(sender_ip)]]
    /\ op' = [name |-> "receive_loop",
              step |-> "receive_packet",
              packet |-> packet,
              sender |-> sender_ip,
              interface |-> interface_name,
              validated |-> accepted,
              reply |-> None]
    /\ UNCHANGED <<table_state, neighbors, routes_v6, auth, lockouts, auth_active,
                   config_manager, network, event_bus, metrics_route_count>>

\* The loop's turn for a datagram that is not UTF-8 or whose text from_json
\* rejects: receive_packet returns Err and the loop only logs it.
ReceiveLoopUndecodable(sender_ip, interface_name) ==
    LET id == ReceiveTask(interface_name) IN
    /\ id \in DOMAIN tasks
    /\ tasks[id].pc = "receive_packet"
    /\ op' = [name |-> "receive_loop_undecodable",
              sender |-> sender_ip,
              interface |-> interface_name]
    /\ UNCHANGED <<table_state, services>>

\* The Request arm under the table's read lock when the table iterates in
\* `order`: the interface's advertisement is copied and the reply built
\* from it.  `held` is history: the table the routes were copied from.
ReceiveLoopReadIn(interface_name, order) ==
    LET id == ReceiveTask(interface_name) IN
    /\ id \in DOMAIN tasks
    /\ tasks[id].pc = "routing_table"
    /\ tasks' = [tasks EXCEPT
                   ![id] = [@ EXCEPT
                              !.pc = "send_packet_to",
                              !.reply = Some(new_update(
                                           get_routes_for_advertising(
                                               routes, order, interface_name))),
                              !.held = Some(routes)]]
    /\ op' = [name |-> "receive_loop",
              step |-> "routing_table",
              packet |-> tasks[id].packet[1],
              sender |-> tasks[id].sender[1],
              interface |-> interface_name,
              validated |-> TRUE,
              reply |-> None]
    /\ UNCHANGED <<table_state, metrics, neighbors, routes_v6, auth, lockouts, auth_active,
                   config_manager, network, event_bus, metrics_route_count>>

ReceiveLoopRead(interface_name) ==
    \E order \in IterationOrders(routes) : ReceiveLoopReadIn(interface_name, order)

\* The Request arm's send_packet_to: the reply goes to the sender and the
\* turn is over.
ReceiveLoopSend(interface_name) ==
    LET id == ReceiveTask(interface_name) IN
    /\ id \in DOMAIN tasks
    /\ tasks[id].pc = "send_packet_to"
    /\ tasks' = [tasks EXCEPT ![id] = IdleReceiveLoop]
    /\ op' = [name |-> "receive_loop",
              step |-> "send_packet_to",
              packet |-> tasks[id].packet[1],
              sender |-> tasks[id].sender[1],
              interface |-> interface_name,
              validated |-> TRUE,
              reply |-> tasks[id].reply,
              held |-> tasks[id].held]
    /\ UNCHANGED <<table_state, metrics, neighbors, routes_v6, auth, lockouts, auth_active,
                   config_manager, network, event_bus, metrics_route_count>>

\* The Response arm's call of handle_rip_response: it has returned
\* Ok(routes) and the table's lock is released.  The function is not in the
\* source tree; what it does to the table and what it returns is section 4.3
\* of the specification (handle_rip_response above).
ReceiveLoopHandle(interface_name) ==
    LET id == ReceiveTask(interface_name) IN
    /\ id \in DOMAIN tasks
    /\ tasks[id].pc = "handle_rip_response"
    /\ LET packet == tasks[id].packet[1]
           sender_ip == tasks[id].sender[1]
           changed == HandleEntriesRoutes(routes, packet.entries, 1, sender_ip,
                                          interface_name, now)
       IN
       /\ routes' = handle_rip_response(routes, packet, sender_ip,
                                        interface_name, now)
       /\ neighbors' = register_neighbor(neighbors, packet, sender_ip,
                                         interface_name, now)
       /\ metrics' = [metrics EXCEPT
                        !.routing_updates_received = @ + 1,
                        !.route_changes = @ + Len(changed)]
       /\ tasks' = [tasks EXCEPT
                      ![id] = IF Len(changed) = 0
                              THEN IdleReceiveLoop
                              ELSE [@ EXCEPT !.pc = "publish", !.routes = changed]]
       /\ event_bus' = [event_bus EXCEPT
                          !.mutated = @ \o [i \in DOMAIN changed |->
                                               RouteEvent(changed[i])]]
       /\ op' = [name |-> "receive_loop",
                 step |-> "handle_rip_response",
                 packet |-> packet,
                 sender |-> sender_ip,
                 interface |-> interface_name,
                 validated |-> TRUE,
                 reply |-> None]
    /\ unreachable_since' = StampMutation(unreachable_since, routes, routes')
    /\ UNCHANGED <<timers, poison_reverse, now, swept, routes_v6, auth, lockouts, auth_active,
                   config_manager, network, metrics_route_count>>

\* One iteration of `for route in routes { events.publish(..) }`.
PublishRouteEvent(interface_name) ==
    LET id == ReceiveTask(interface_name) IN
    /\ id \in DOMAIN tasks
    /\ tasks[id].pc = "publish"
    /\ event_bus' = [event_bus EXCEPT
                       !.published = Append(@, RouteEvent(Head(tasks[id].routes)))]
    /\ tasks' = [tasks EXCEPT
                   ![id] = IF Len(tasks[id].routes) = 1
                           THEN IdleReceiveLoop
                           ELSE [@ EXCEPT !.routes = Tail(@)]]
    /\ op' = [name |-> "publish_route_event", interface |-> interface_name]
    /\ UNCHANGED <<table_state, metrics, neighbors, routes_v6, auth, lockouts, auth_active,
                   config_manager, network, metrics_route_count>>

---------------------------------------------------------------------------
(* SpecLoop: datagrams from two peers, with valid and invalid entries,      *)
(* reach the receive loop of one interface of the daemon.                   *)

\* A Response with twelve entries, whose text has 1511 bytes.
LongResponse ==
    [command |-> "Response", version |-> 2, reserved |-> 0,
     entries |-> [i \in 1..12 |->
                    [address_family |-> 2, route_tag |-> 0,
                     ip_address |-> <<10, 100 + i, 0, 0>>, subnet_mask |-> Mask16,
                     next_hop |-> UNSPECIFIED, metric |-> 2]]]

\* The packets of the datagrams: those of one entry, the valid Responses of
\* two different entries, and the long one.
LoopPackets ==
    {p \in ReceivedPackets :
        \/ Len(p.entries) = 1
        \/ /\ p.command = "Response"
           /\ p.version = 2
           /\ p.entries[1] # p.entries[2]}
        \cup {LongResponse}

NextLoop ==
    \/ SpawnReceiveLoops
    \/ \E packet \in LoopPackets, sender \in Peers :
            ReceiveLoop(packet, sender, "eth1")
    \/ \E sender \in Peers : ReceiveLoopUndecodable(sender, "eth1")
    \/ ReceiveLoopRead("eth1")
    \/ ReceiveLoopSend("eth1")
    \/ ReceiveLoopHandle("eth1")
    \/ PublishRouteEvent("eth1")

SpecLoop ==
    Init /\ [][NextLoop]_vars

---------------------------------------------------------------------------
(* SpecAdvert: advertisements of the daemon.  The table is filled as above  *)
(* before start_router spawns its tasks; then the periodic update task      *)
(* takes its turns and the receive loops answer Requests for the whole      *)
(* table while routes are removed from it.                                  *)

\* A Request for the whole table.
TableRequest ==
    [command |-> "Request", version |-> 2, reserved |-> 0, entries |-> << >>]

NextAdvert ==
    \/ /\ DOMAIN tasks = {}
       /\ Mutate(NestedPrefixes, {PeerA}, {PeerA}, AdvertMetrics, Interfaces)
    \/ /\ DOMAIN tasks # {}
       /\ \E p \in NestedPrefixes : RemoveRoute(p[1], p[2])
    \/ SpawnRipTasks
    \/ PeriodicUpdateRead
    \/ PeriodicUpdateSend
    \/ \E i \in Interfaces : ReceiveLoop(TableRequest, PeerA, i)
    \/ \E i \in Interfaces : ReceiveLoopRead(i)
    \/ \E i \in Interfaces : ReceiveLoopSend(i)

SpecAdvert ==
    InitAdvert /\ [][NextAdvert]_vars

---------------------------------------------------------------------------
(* SpecBulk: advertisements of a large table.  The table is given up to     *)
(* MaxRoutes Static routes, one /24 after the other; the last LateRoutes    *)
(* of them may be added after start_router has spawned its tasks, while     *)
(* the periodic update task takes its turns and the receive loop of eth1    *)
(* answers Requests.                                                        *)

LateRoutes ==
    2

NextBulk ==
    \/ \E i \in 0..(MaxRoutes - 1) :
            /\ i = Cardinality(DOMAIN routes)
            /\ DOMAIN tasks = {} \/ i >= MaxRoutes - LateRoutes
            /\ AddStaticRoute(BulkDestination(i), Mask24, PeerA, 1, "eth0")
    \/ SpawnRipTasks
    \/ \E order \in BulkOrders(routes) : PeriodicUpdateReadIn(order)
    \/ PeriodicUpdateSend
    \/ ReceiveLoop(TableRequest, PeerA, "eth1")
    \/ \E order \in BulkOrders(routes) : ReceiveLoopReadIn("eth1", order)
    \/ ReceiveLoopSend("eth1")

SpecBulk ==
    Init /\ [][NextBulk]_vars

---------------------------------------------------------------------------
(* SpecEvents: Responses for one prefix reach the receive loops of two      *)
(* interfaces.                                                              *)

\* Responses for one prefix.
EventPackets ==
    {[command |-> "Response", version |-> 2, reserved |-> 0,
      entries |-> <<[address_family |-> 2, route_tag |-> 0, ip_address |-> Net10,
                     subnet_mask |-> Mask16, next_hop |-> UNSPECIFIED,
                     metric |-> m]>>] : m \in {1, 3}}

NextEvents ==
    \/ SpawnReceiveLoops
    \/ \E packet \in EventPackets, sender \in Peers, i \in Interfaces :
          ReceiveLoop(packet, sender, i)
    \/ \E i \in Interfaces : ReceiveLoopHandle(i)
    \/ \E i \in Interfaces : PublishRouteEvent(i)

SpecEvents ==
    Init /\ [][NextEvents]_vars

---------------------------------------------------------------------------
(* SpecRouter: Router::run_with_real_networking (src/src/router.rs).  It    *)
(* spawns a packet receiver per socket and the periodic update sender and   *)
(* waits in select!; the tasks act while they are alive and the clock       *)
(* advances.  With an update interval of zero the update sender ends at     *)
(* once and the call returns.                                               *)

\* A Response with one route and a Request.
RouterPackets ==
    {[command |-> "Response", version |-> 2, reserved |-> 0,
      entries |-> <<[address_family |-> 2, route_tag |-> 0, ip_address |-> Net10,
                     subnet_mask |-> Mask16, next_hop |-> UNSPECIFIED,
                     metric |-> 1]>>],
     [command |-> "Request", version |-> 2, reserved |-> 0, entries |-> << >>]}

\* The update intervals run_with_real_networking is called with.
UpdateIntervals ==
    {0, DEFAULT_UPDATE_INTERVAL}

NextRouter ==
    \/ \E update_interval \in UpdateIntervals : RunWithRealNetworking(update_interval)
    \/ \E packet \in RouterPackets : PacketReceiver(packet, PeerA, "eth1")
    \/ ProcessRipPacketNeighbors("eth1")
    \/ ProcessRipPacketRoutes("eth1")
    \/ PeriodicUpdateSenderInterval
    \/ \E polled \in SUBSET Interfaces : RunWithRealNetworkingReturn(polled)
    \/ RunWithRealNetworkingDropped
    \/ \E i \in Interfaces : PacketReceiverCancelled(i)
    \/ PeriodicUpdateSender
    \/ PeriodicUpdateSenderSweep
    \/ PeriodicUpdateSenderRead
    \/ \E i \in Interfaces : PeriodicUpdateSenderSend(i)
    \/ Shutdown
    \/ Elapse

SpecRouter ==
    Init /\ [][NextRouter]_vars

---------------------------------------------------------------------------
(* SpecStartup: NetworkManager::initialize_all (src/src/network.rs) for     *)
(* every set of configured interfaces, every set of them whose bind fails   *)
(* and every order in which the HashMap of interfaces iterates.             *)

\* NetworkInterface::new
NewInterface(name) ==
    [name |-> name, socket |-> None]

\* NetworkInterface::initialize, the interface it leaves: the socket is
\* stored when bind succeeded.
initialize(interface, bind_ok) ==
    IF bind_ok THEN [interface EXCEPT !.socket = Some("UdpSocket")] ELSE interface

\* The loop of initialize_all from the i-th interface of the iteration on:
\* the `?` returns at the first interface whose initialize fails.
RECURSIVE InitializeAllFrom(_, _, _, _)
InitializeAllFrom(interfaces, order, i, failing) ==
    IF i > Len(order)
    THEN interfaces
    ELSE IF order[i] \in failing
    THEN interfaces
    ELSE InitializeAllFrom(
            [interfaces EXCEPT ![order[i]] = initialize(@, TRUE)],
            order, i + 1, failing)

\* The Result initialize_all returns.
initialize_all_ret(order, failing) ==
    IF \E i \in DOMAIN order : order[i] \in failing
    THEN Err("Failed to initialize interface")
    ELSE Ok("()")

\* A NetworkManager with the configured interfaces added, then
\* initialize_all.
InitializeAll(configured, failing, order) ==
    /\ op' = [name |-> "initialize_all",
              configured |-> configured,
              failing |-> failing,
              interfaces |-> InitializeAllFrom([n \in configured |-> NewInterface(n)],
                                               order, 1, failing),
              ret |-> initialize_all_ret(order, failing)]
    /\ UNCHANGED <<table_state, services>>

StartupInterfaces ==
    {"eth0", "eth1", "eth2", "eth3"}

NextStartup ==
    \E configured \in SUBSET StartupInterfaces \ {{}} :
        \E failing \in SUBSET configured :
            \E order \in IterationOrders([n \in configured |-> n]) :
                InitializeAll(configured, failing, order)

SpecStartup ==
    Init /\ [][NextStartup]_vars

---------------------------------------------------------------------------
(* IPv6 routing table (src/src/ipv6.rs).  An IPv6 address is its eight      *)
(* 16-bit groups; an Ipv6Net is <<address, prefix length>>.                  *)
(* SystemTime::now() is the clock `now`, in seconds.                        *)

\* RipV6Config::default().infinity_metric
V6_INFINITY_METRIC ==
    16

RECURSIVE Pow2(_)
Pow2(n) ==
    IF n = 0 THEN 1 ELSE 2 * Pow2(n - 1)

\* Ipv6Net::contains: the first prefix[2] bits of the address are the
\* network's.
v6_contains(prefix, address) ==
    \A i \in 1..8 :
        LET bits == Max(0, Min(16, prefix[2] - 16 * (i - 1)))
            shift == Pow2(16 - bits)
        IN (address[i] \div shift) = (prefix[1][i] \div shift)

\* RipV6Config::default().update_interval
V6_UPDATE_INTERVAL ==
    30

\* RipV6Config::default().garbage_collection_timeout
V6_GARBAGE_COLLECTION_TIMEOUT ==
    120

\* RipV6Route::new at time t
NewRouteV6(prefix, next_hop, metric, interface, learned_from, t) ==
    [prefix |-> prefix,
     next_hop |-> next_hop,
     metric |-> metric,
     route_tag |-> 0,
     interface |-> interface,
     learned_from |-> learned_from,
     last_updated |-> t,
     garbage_collection_timer |-> None]

\* RipV6Route::is_expired at time t
v6_is_expired(route, timeout, t) ==
    t - route.last_updated > timeout

\* RipV6Route::should_be_deleted at time t
v6_should_be_deleted(route, gc_timeout, t) ==
    /\ route.garbage_collection_timer # None
    /\ t - route.garbage_collection_timer[1] > gc_timeout

\* RipV6RoutingTable::remove_route, the table it leaves.
v6_remove_route(tbl, prefix) ==
    [p \in DOMAIN tbl \ {prefix} |-> tbl[p]]

\* RipV6RoutingTable::update_timers at time t: the routes whose garbage
\* collection has run out are removed; of the others, those that have
\* expired and are not yet garbage are marked: the timer is started and the
\* metric set to 16.
v6_update_timers(tbl, t) ==
    LET to_remove ==
            {p \in DOMAIN tbl :
                v6_should_be_deleted(tbl[p], V6_GARBAGE_COLLECTION_TIMEOUT, t)}
        to_garbage_collect ==
            {p \in DOMAIN tbl \ to_remove :
                /\ v6_is_expired(tbl[p], V6_UPDATE_INTERVAL * 6, t)
                /\ tbl[p].garbage_collection_timer = None}
    IN  [p \in DOMAIN tbl \ to_remove |->
            IF p \in to_garbage_collect
            THEN [tbl[p] EXCEPT !.garbage_collection_timer = Some(t),
                                !.metric = 16]
            ELSE tbl[p]]

\* RipV6RoutingTable::add_route, the table it leaves.
v6_add_route(tbl, route) ==
    IF route.prefix \in DOMAIN tbl
    THEN IF \/ u32_lt(route.metric, tbl[route.prefix].metric)
            \/ /\ route.learned_from = tbl[route.prefix].learned_from
               /\ u32_le(route.metric, tbl[route.prefix].metric)
         THEN [tbl EXCEPT ![route.prefix] = route]
         ELSE tbl
    ELSE [p \in DOMAIN tbl \cup {route.prefix} |->
            IF p = route.prefix THEN route ELSE tbl[p]]

\* The bool add_route returns.
v6_add_route_ret(tbl, route) ==
    IF route.prefix \in DOMAIN tbl
    THEN \/ u32_lt(route.metric, tbl[route.prefix].metric)
         \/ /\ route.learned_from = tbl[route.prefix].learned_from
            /\ u32_le(route.metric, tbl[route.prefix].metric)
    ELSE TRUE

RECURSIVE MinByKeyMetric(_, _, _, _)
\* Iterator::min_by_key(metric) over the values in iteration order, from
\* position i on: the first of several equal minima is returned.
MinByKeyMetric(tbl, order, i, best) ==
    IF i > Len(order)
    THEN best
    ELSE LET r == tbl[order[i]] IN
         IF best = None \/ u32_lt(r.metric, best[1].metric)
         THEN MinByKeyMetric(tbl, order, i + 1, Some(r))
         ELSE MinByKeyMetric(tbl, order, i + 1, best)

\* RipV6RoutingTable::find_best_route when the map iterates in `order`.
v6_find_best_route(tbl, order, destination) ==
    LET matching ==
            SelectSeq(order,
                      LAMBDA p : /\ v6_contains(tbl[p].prefix, destination)
                                 /\ u32_lt(tbl[p].metric, V6_INFINITY_METRIC))
    IN MinByKeyMetric(tbl, matching, 1, None)

AddRouteV6(route) ==
    /\ routes_v6' = v6_add_route(routes_v6, route)
    /\ op' = [name |-> "v6_add_route",
              route |-> route,
              ret |-> v6_add_route_ret(routes_v6, route)]
    /\ UNCHANGED <<table_state, metrics, neighbors, auth, lockouts, auth_active, config_manager,
                   network, tasks, event_bus, metrics_route_count>>

RemoveRouteV6(prefix) ==
    /\ routes_v6' = v6_remove_route(routes_v6, prefix)
    /\ op' = [name |-> "v6_remove_route",
              prefix |-> prefix,
              ret |-> IF prefix \in DOMAIN routes_v6
                      THEN Some(routes_v6[prefix]) ELSE None]
    /\ UNCHANGED <<table_state, metrics, neighbors, auth, lockouts, auth_active, config_manager,
                   network, tasks, event_bus, metrics_route_count>>

UpdateTimersV6 ==
    /\ routes_v6' = v6_update_timers(routes_v6, now)
    /\ op' = [name |-> "v6_update_timers"]
    /\ UNCHANGED <<table_state, metrics, neighbors, auth, lockouts, auth_active, config_manager,
                   network, tasks, event_bus, metrics_route_count>>

FindBestRouteV6(destination) ==
    \E order \in IterationOrders(routes_v6) :
        /\ op' = [name |-> "v6_find_best_route",
                  destination |-> destination,
                  ret |-> v6_find_best_route(routes_v6, order, destination)]
        /\ UNCHANGED <<table_state, services>>

---------------------------------------------------------------------------
(* SpecV6: two nested IPv6 prefixes learned from two peers with reachable   *)
(* and unreachable metrics and removed again, and lookups inside and        *)
(* outside them.                                                            *)

\* 2001:db8::/32 and 2001:db8::/48
PrefixesV6 ==
    {<<<<8193, 3512, 0, 0, 0, 0, 0, 0>>, 32>>,
     <<<<8193, 3512, 0, 0, 0, 0, 0, 0>>, 48>>}

\* fe80::2 and fe80::4
PeersV6 ==
    {<<65152, 0, 0, 0, 0, 0, 0, 2>>, <<65152, 0, 0, 0, 0, 0, 0, 4>>}

MetricsV6 ==
    {5, 10, V6_INFINITY_METRIC}

\* 2001:db8::1 (inside both), 2001:db8:1::1 (inside the /32 only) and
\* 2001:db9::1 (outside)
LookupAddressesV6 ==
    {<<8193, 3512, 0, 0, 0, 0, 0, 1>>,
     <<8193, 3512, 1, 0, 0, 0, 0, 1>>,
     <<8193, 3513, 0, 0, 0, 0, 0, 1>>}

NextV6 ==
    \/ \E p \in PrefixesV6, peer \in PeersV6, m \in MetricsV6 :
            AddRouteV6(NewRouteV6(p, peer, m, "eth0", peer, now))
    \/ \E p \in PrefixesV6 : RemoveRouteV6(p)
    \/ \E a \in LookupAddressesV6 : FindBestRouteV6(a)

SpecV6 ==
    Init /\ [][NextV6]_vars

---------------------------------------------------------------------------
(* SpecV6Timers: the two prefixes learned from one peer and aged by         *)
(* update_timers while the clock advances.                                  *)

NextV6Timers ==
    \/ \E p \in PrefixesV6, peer \in {<<65152, 0, 0, 0, 0, 0, 0, 2>>} :
            AddRouteV6(NewRouteV6(p, peer, 5, "eth0", peer, now))
    \/ UpdateTimersV6
    \/ \E a \in LookupAddressesV6 : FindBestRouteV6(a)
    \/ Elapse

SpecV6Timers ==
    Init /\ [][NextV6Timers]_vars

---------------------------------------------------------------------------
(* Authentication (src/src/auth.rs).  SystemTime::now() is the clock `now`, *)
(* in seconds.                                                              *)

LoginResponse(success, token, expires_in, user, message) ==
    [success |-> success, token |-> token, expires_in |-> expires_in,
     user |-> user, message |-> message]

Rejected(message) ==
    LoginResponse(FALSE, None, None, None, message)

\* The user record after the lock-out test of authenticate: a lock that has
\* run out is lifted and the failed attempts forgotten.
unlock_if_elapsed(user, t) ==
    IF user.locked_until # None /\ ~(t < user.locked_until[1])
    THEN [user EXCEPT !.locked_until = None, !.failed_attempts = 0]
    ELSE user

\* The lock test of a failed attempt with > for >=.
reaches_limit_beyond(failed_attempts, max_failed_attempts) ==
    failed_attempts > max_failed_attempts

\* user.failed_attempts >= self.config.max_failed_attempts
reaches_limit(failed_attempts, max_failed_attempts) ==
    failed_attempts >= max_failed_attempts

\* AuthManager::authenticate, the manager it leaves; t is SystemTime::now().
authenticate(am, request, t) ==
    IF ~am.config.enabled \/ request.username \notin DOMAIN am.users
    THEN am
    ELSE
    LET stored == am.users[request.username]
        locked == stored.locked_until # None /\ t < stored.locked_until[1]
        user == unlock_if_elapsed(stored, t)
    IN  IF locked
        THEN am
        ELSE IF ~user.active
        THEN [am EXCEPT !.users[request.username] = user]
        ELSE IF verify(request.password, user.password_hash)
        THEN [am EXCEPT
                !.users[request.username] =
                    [user EXCEPT !.failed_attempts = 0, !.last_login = Some(t)],
                !.active_tokens =
                    [j \in DOMAIN am.active_tokens \cup {am.issued + 1} |->
                        IF j = am.issued + 1
                        THEN [sub |-> user.username,
                              role |-> user.role,
                              exp |-> t + am.config.token_expiry_hours * 3600,
                              iat |-> t,
                              jti |-> j]
                        ELSE am.active_tokens[j]],
                !.issued = @ + 1]
        ELSE [am EXCEPT
                !.users[request.username] =
                    [user EXCEPT
                        !.failed_attempts = @ + 1,
                        !.locked_until =
                            IF reaches_limit(user.failed_attempts + 1,
                                             am.config.max_failed_attempts)
                            THEN Some(t + am.config.lockout_duration_minutes * 60)
                            ELSE @]]

\* The LoginResponse authenticate returns.
authenticate_ret(am, request, t) ==
    IF ~am.config.enabled
    THEN Rejected("Authentication is disabled")
    ELSE IF request.username \notin DOMAIN am.users
    THEN Rejected("Invalid credentials")
    ELSE
    LET stored == am.users[request.username]
        locked == stored.locked_until # None /\ t < stored.locked_until[1]
        user == unlock_if_elapsed(stored, t)
    IN  IF locked
        THEN Rejected("Account is temporarily locked")
        ELSE IF ~user.active
        THEN Rejected("Account is disabled")
        ELSE IF verify(request.password, user.password_hash)
        THEN LoginResponse(TRUE, Some(am.issued + 1),
                           Some(am.config.token_expiry_hours * 3600),
                           Some([username |-> user.username,
                                 role |-> user.role,
                                 last_login |-> Some(t)]),
                           "Login successful")
        ELSE Rejected("Invalid credentials")

\* History of the logins of one user: a lock that has lasted the lock-out
\* duration is over; while a lock lasts the attempts do not count; a wrong
\* password adds to the failures in a row, and the one that reaches
\* max_failed_attempts starts the lock; a right password ends the row.
RecordLogin(history, request, t) ==
    IF request.username \notin DOMAIN history
    THEN history
    ELSE
    LET h == history[request.username]
        duration == auth.config.lockout_duration_minutes * 60
        over == h.locked_at # None /\ t >= h.locked_at[1] + duration
        current == IF over THEN [streak |-> 0, locked_at |-> None] ELSE h
        wrong == ~verify(request.password, auth.users[request.username].password_hash)
    IN  [history EXCEPT ![request.username] =
            IF current.locked_at # None
            THEN current
            ELSE IF wrong
            THEN [streak |-> current.streak + 1,
                  locked_at |-> IF current.streak + 1 >= auth.config.max_failed_attempts
                                THEN Some(t) ELSE None]
            ELSE [streak |-> 0, locked_at |-> None]]

\* One authenticate call.
Authenticate(request) ==
    /\ authenticate_ret(auth, request, now).success => auth.issued < MaxTokens
    /\ auth' = authenticate(auth, request, now)
    /\ lockouts' = RecordLogin(lockouts, request, now)
    /\ op' = [name |-> "authenticate",
              request |-> request,
              at |-> now,
              locked_at |-> IF request.username \in DOMAIN lockouts
                            THEN lockouts[request.username].locked_at
                            ELSE None,
              tokens |-> DOMAIN auth.active_tokens,
              ret |-> authenticate_ret(auth, request, now)]
    /\ UNCHANGED <<table_state, metrics, neighbors, routes_v6, auth_active,
                   config_manager, network, tasks, event_bus,
                   metrics_route_count>>

\* AuthManager::change_password: the manager it leaves and what it returns.
\* The failed attempts, the lock and the tokens of the user stay.
change_password(am, username, old_password, new_password) ==
    IF username \notin DOMAIN am.users
    THEN [manager |-> am, ret |-> Err("User not found")]
    ELSE IF ~verify(old_password, am.users[username].password_hash)
    THEN [manager |-> am, ret |-> Err("Invalid current password")]
    ELSE [manager |-> [am EXCEPT !.users[username].password_hash = hash(new_password)],
          ret |-> Ok(<<>>)]

\* One change_password call.
ChangePassword(username, old_password, new_password) ==
    /\ auth' = change_password(auth, username, old_password, new_password).manager
    /\ op' = [name |-> "change_password",
              username |-> username,
              ret |-> change_password(auth, username, old_password, new_password).ret]
    /\ UNCHANGED <<table_state, metrics, neighbors, routes_v6, lockouts,
                   auth_active, config_manager, network, tasks, event_bus,
                   metrics_route_count>>

\* Time passes between two logins: a third of the lock-out duration.
LoginStep ==
    (LOCKOUT_DURATION_MINUTES * 60) \div 3

ElapseLogin ==
    /\ now < MaxLoginTicks * LoginStep
    /\ now' = now + LoginStep
    /\ op' = [name |-> "elapse"]
    /\ UNCHANGED <<routes, timers, poison_reverse, services, swept, unreachable_since>>

---------------------------------------------------------------------------
(* SpecAuth: logins of the default admin and of an unknown user, with the   *)
(* right and a wrong password, while the clock advances.                    *)

InitAuth ==
    /\ InitRoutes
    /\ \E m \in {TEST_MAX_FAILED_ATTEMPTS, DEFAULT_MAX_FAILED_ATTEMPTS} :
          InitServicesWith(m, Some(DefaultRouterConfig))
    /\ route_timeout = DEFAULT_ROUTE_TIMEOUT
    /\ garbage_collection_timeout = DEFAULT_GC_TIMEOUT
    /\ poison_reverse = FALSE

LoginRequests ==
    {[username |-> u, password |-> p] :
        u \in {"admin", "guest"}, p \in {"admin123", "wrong_password"}}

NextAuth ==
    \/ \E request \in LoginRequests : Authenticate(request)
    \/ \E u \in {"admin", "guest"}, old, new \in {"admin123", "wrong_password"} :
          ChangePassword(u, old, new)
    \/ ElapseLogin

SpecAuth ==
    InitAuth /\ [][NextAuth]_vars

---------------------------------------------------------------------------
(* Tokens (src/src/auth.rs).  A token is the signed encoding of its claims, *)
(* so here it is the claims record; the jti is the counter `issued`.  The   *)
(* clients that received a token keep it in `tasks`, with the note whether  *)
(* it has been logged out or its user deactivated since.                    *)

\* jsonwebtoken::decode with validate_exp: the claims of a token signed with
\* the manager's key, unless it has expired (Validation::new sets a leeway
\* of 60 seconds).
decode(token, t) ==
    IF token.exp + 60 < t
    THEN Err("ExpiredSignature")
    ELSE Ok(token)

\* AuthManager::validate_token; t is the time of the call.
validate_token(am, token, t) ==
    IF ~am.config.enabled
    THEN Err("Disabled")
    ELSE IF ~decode(token, t).ok
    THEN Err("InvalidToken")
    ELSE
    LET claims == decode(token, t).value
    IN  IF claims.jti \notin DOMAIN am.active_tokens
        THEN Err("TokenRevoked")
        ELSE IF claims.sub \notin DOMAIN am.users
        THEN Err("UserNotFound")
        ELSE IF ~am.users[claims.sub].active
        THEN Err("UserDisabled")
        ELSE Ok(claims)

\* logout that leaves the token among the active ones.
logout_keep_active(am, token, t) ==
    [manager |-> am,
     ret |-> IF validate_token(am, token, t).ok
             THEN Ok(<<>>)
             ELSE validate_token(am, token, t)]

\* AuthManager::logout: the manager it leaves and what it returns.
logout(am, token, t) ==
    IF ~validate_token(am, token, t).ok
    THEN [manager |-> am, ret |-> validate_token(am, token, t)]
    ELSE [manager |->
            [am EXCEPT !.active_tokens =
                [j \in DOMAIN am.active_tokens \ {token.jti} |->
                    am.active_tokens[j]]],
          ret |-> Ok(<<>>)]

\* AuthManager::create_user: the manager it leaves and what it returns.
create_user(am, username, password, role) ==
    IF username \in DOMAIN am.users
    THEN [manager |-> am, ret |-> Err("User already exists")]
    ELSE [manager |->
            [am EXCEPT !.users =
                [u \in DOMAIN am.users \cup {username} |->
                    IF u = username
                    THEN [username |-> username,
                          password_hash |-> hash(password),
                          role |-> role,
                          last_login |-> None,
                          failed_attempts |-> 0,
                          locked_until |-> None,
                          active |-> TRUE]
                    ELSE am.users[u]]],
          ret |-> Ok(<<>>)]

\* AuthManager::deactivate_user: the manager it leaves and what it returns.
deactivate_user(am, username) ==
    IF username \notin DOMAIN am.users
    THEN [manager |-> am, ret |-> Err("User not found")]
    ELSE [manager |->
            [am EXCEPT
                !.users[username].active = FALSE,
                !.active_tokens =
                    [j \in {i \in DOMAIN am.active_tokens :
                                am.active_tokens[i].sub # username} |->
                        am.active_tokens[j]]],
          ret |-> Ok(<<>>)]

\* AuthManager::cleanup_expired_tokens at time t.
cleanup_expired_tokens(am, t) ==
    [am EXCEPT !.active_tokens =
        [j \in {i \in DOMAIN am.active_tokens : am.active_tokens[i].exp > t} |->
            am.active_tokens[j]]]

ClientTask(jti) ==
    <<"client", jti>>

auth_rest ==
    <<table_state, metrics, neighbors, routes_v6, auth_active, config_manager,
      network, event_bus, metrics_route_count>>

\* A login whose token, when one is issued, is kept by the client.
Login(request) ==
    LET ret == authenticate_ret(auth, request, now)
        after == authenticate(auth, request, now)
    IN  /\ ret.success => auth.issued < MaxTokens
        /\ auth' = after
        /\ lockouts' = RecordLogin(lockouts, request, now)
        /\ tasks' =
             IF ret.success
             THEN [id \in DOMAIN tasks \cup {ClientTask(ret.token[1])} |->
                     IF id = ClientTask(ret.token[1])
                     THEN [token |-> after.active_tokens[ret.token[1]],
                           revoked |-> FALSE]
                     ELSE tasks[id]]
             ELSE tasks
        /\ op' = [name |-> "login", request |-> request, at |-> now, ret |-> ret]
        /\ UNCHANGED auth_rest

\* A client presents its token.
ValidateToken(id) ==
    /\ id \in DOMAIN tasks
    /\ op' = [name |-> "validate_token",
              token |-> tasks[id].token,
              at |-> now,
              ret |-> validate_token(auth, tasks[id].token, now)]
    /\ UNCHANGED <<auth, lockouts, tasks, auth_rest>>

\* A client logs out with its token.
Logout(id) ==
    /\ id \in DOMAIN tasks
    /\ auth' = logout(auth, tasks[id].token, now).manager
    /\ tasks' = [tasks EXCEPT ![id].revoked =
                    @ \/ logout(auth, tasks[id].token, now).ret.ok]
    /\ op' = [name |-> "logout",
              token |-> tasks[id].token,
              at |-> now,
              ret |-> logout(auth, tasks[id].token, now).ret]
    /\ UNCHANGED <<lockouts, auth_rest>>

CreateUser(username, password, role) ==
    /\ auth' = create_user(auth, username, password, role).manager
    /\ op' = [name |-> "create_user",
              username |-> username,
              ret |-> create_user(auth, username, password, role).ret]
    /\ UNCHANGED <<lockouts, tasks, auth_rest>>

DeactivateUser(username) ==
    /\ auth' = deactivate_user(auth, username).manager
    /\ tasks' = [id \in DOMAIN tasks |->
                    [tasks[id] EXCEPT !.revoked =
                        @ \/ (/\ deactivate_user(auth, username).ret.ok
                              /\ tasks[id].token.sub = username)]]
    /\ op' = [name |-> "deactivate_user",
              username |-> username,
              ret |-> deactivate_user(auth, username).ret]
    /\ UNCHANGED <<lockouts, auth_rest>>

CleanupExpiredTokens ==
    /\ auth' = cleanup_expired_tokens(auth, now)
    /\ op' = [name |-> "cleanup_expired_tokens", at |-> now]
    /\ UNCHANGED <<lockouts, tasks, auth_rest>>

\* Time passes: half the life of a token.
TokenStep ==
    (TOKEN_EXPIRY_HOURS * 3600) \div 2

ElapseToken ==
    /\ now < MaxTokenTicks * TokenStep
    /\ now' = now + TokenStep
    /\ op' = [name |-> "elapse"]
    /\ UNCHANGED <<routes, timers, poison_reverse, services, swept, unreachable_since>>

---------------------------------------------------------------------------
(* SpecTokens: the default admin and a created operator log in, present     *)
(* their tokens, log out and are deactivated, while tokens expire.  A user  *)
(* changes the password to the one of the logins, giving the current        *)
(* password or another; SpecAuth has the changes that make a login fail.    *)

TokenUsers ==
    {"admin", "operator"}

\* Two passwords of 73 bytes that differ in the last: the operator is
\* created with the first and logs in with the second.
LongPassword ==
    "0123456789012345678901234567890123456789012345678901234567890123456789012"

LongPasswordTwin ==
    "0123456789012345678901234567890123456789012345678901234567890123456789013"

TokenRequests ==
    {[username |-> "admin", password |-> "admin123"],
     [username |-> "operator", password |-> LongPasswordTwin]}

NextTokens ==
    \/ \E request \in TokenRequests : Login(request)
    \/ \E j \in 1..MaxTokens : ValidateToken(ClientTask(j))
    \/ \E j \in 1..MaxTokens : Logout(ClientTask(j))
    \/ \E u \in TokenUsers : CreateUser(u, LongPassword, "Operator")
    \/ \E u \in TokenUsers \cup {"guest"} : DeactivateUser(u)
    \/ \E request \in TokenRequests, old \in {"admin123", LongPassword} :
          ChangePassword(request.username, old, request.password)
    \/ CleanupExpiredTokens
    \/ ElapseToken

InitTokens ==
    /\ InitAuth
    /\ auth.config.max_failed_attempts = DEFAULT_MAX_FAILED_ATTEMPTS

SpecTokens ==
    InitTokens /\ [][NextTokens]_vars

---------------------------------------------------------------------------
(* SpecWeb: the create_route and delete_route handlers of the admin API     *)
(* (src/src/web.rs), step by step.  Each request is a task of the           *)
(* multi-threaded runtime and gives way at every lock it awaits: the token  *)
(* is checked under the lock of the AuthManager; the table is changed under *)
(* its write lock, which is dropped; the number of routes is read under a   *)
(* read lock, held for that statement only; then the number is stored in    *)
(* the metrics.  The addresses of the requests parse.                       *)

\* UserRole::can_read, can_write, can_admin behind require_permission.
require_permission(required_role, claims) ==
    IF claims.role \in (CASE required_role = "ReadOnly" -> {"Admin", "Operator", "ReadOnly"}
                          [] required_role = "Operator" -> {"Admin", "Operator"}
                          [] required_role = "Admin" -> {"Admin"})
    THEN Ok(<<>>)
    ELSE Err("InsufficientPermissions")

\* AppState.auth, an Option<AuthManager>: start_router and its task for
\* configuration changes store a manager when the configuration enables
\* authentication in both auth.enabled and web.auth_enabled, and None
\* otherwise.
StateAuth ==
    IF auth_active THEN Some(auth) ELSE None

\* ensure_permission for a request whose headers carry the token, if any.
\* `guard` is the content of AppState.auth: without a manager every request
\* is let through.
ensure_permission(guard, token, required_role, t) ==
    IF guard = None
    THEN Ok(<<>>)
    ELSE IF token = None
    THEN Err("UNAUTHORIZED")
    ELSE IF ~validate_token(guard[1], token[1], t).ok
    THEN Err("UNAUTHORIZED")
    ELSE IF ~require_permission(required_role,
                                validate_token(guard[1], token[1], t).value).ok
    THEN Err("FORBIDDEN")
    ELSE Ok(<<>>)

\* The login handler of the admin API: without a manager it answers
\* "Authentication disabled"; otherwise it is AuthManager::authenticate.
WebLogin(request) ==
    IF StateAuth = None
    THEN /\ op' = [name |-> "login", request |-> request, at |-> now,
                   ret |-> Rejected("Authentication disabled")]
         /\ UNCHANGED <<auth, lockouts, tasks, auth_rest>>
    ELSE Login(request)

RequestTask(n) ==
    <<"request", n>>

RequestAt(n, pc) ==
    /\ RequestTask(n) \in DOMAIN tasks
    /\ tasks[RequestTask(n)].pc = pc

\* A handler that has returned: its locals are dropped.
ReturnedRequest(ret) ==
    [pc |-> "returned", request |-> None, count |-> None, ret |-> ret]

web_rest ==
    <<timers, poison_reverse, now, swept, metrics, neighbors, routes_v6, auth,
      lockouts, auth_active, config_manager, network, event_bus>>

\* A request arrives and the handler runs ensure_permission: it goes on to
\* the table when the token is accepted and returns the status otherwise.
\* `request` holds the handler's name and the parsed arguments.
EnsurePermission(n, request, token) ==
    /\ RequestTask(n) \notin DOMAIN tasks
    /\ tasks' = [id \in DOMAIN tasks \cup {RequestTask(n)} |->
                    IF id # RequestTask(n)
                    THEN tasks[id]
                    ELSE IF ensure_permission(StateAuth, token, "Operator", now).ok
                    THEN [pc |-> "write",
                          request |-> Some(request),
                          count |-> None,
                          ret |-> ensure_permission(StateAuth, token, "Operator", now)]
                    ELSE ReturnedRequest(
                             ensure_permission(StateAuth, token, "Operator", now))]
    /\ op' = [name |-> "ensure_permission", request |-> n, token |-> token,
              ret |-> ensure_permission(StateAuth, token, "Operator", now)]
    /\ UNCHANGED <<routes, unreachable_since, web_rest, metrics_route_count>>

\* create_route from the table's write lock to drop(table):
\* metric = request.metric.unwrap_or(1).max(1), then add_static_route.
CreateRouteWrite(n) ==
    /\ RequestAt(n, "write")
    /\ tasks[RequestTask(n)].request[1].handler = "create_route"
    /\ LET request == tasks[RequestTask(n)].request[1]
           metric == u32_max(IF request.metric = None THEN 1 ELSE request.metric[1], 1)
       IN  /\ routes' = add_static_route(routes, request.destination, request.mask,
                                         request.next_hop, metric,
                                         request.interface, now)
           /\ op' = [name |-> "create_route", request |-> n,
                     route |-> StaticRoute(request.destination, request.mask,
                                           request.next_hop, metric,
                                           request.interface, now)]
    /\ unreachable_since' = StampMutation(unreachable_since, routes, routes')
    /\ tasks' = [tasks EXCEPT ![RequestTask(n)].pc = "count"]
    /\ UNCHANGED <<web_rest, metrics_route_count>>

\* delete_route from the table's write lock to drop(table), or to its
\* return when there is no such route.
DeleteRouteWrite(n) ==
    /\ RequestAt(n, "write")
    /\ tasks[RequestTask(n)].request[1].handler = "delete_route"
    /\ LET request == tasks[RequestTask(n)].request[1]
           found == key(request.destination, request.mask) \in DOMAIN routes
       IN  /\ routes' = remove_route(routes, request.destination, request.mask)
           /\ tasks' = [tasks EXCEPT
                          ![RequestTask(n)] =
                              IF found
                              THEN [@ EXCEPT !.pc = "count"]
                              ELSE ReturnedRequest(Ok("Route not found"))]
           /\ op' = [name |-> "delete_route", request |-> n,
                     key |-> key(request.destination, request.mask),
                     found |-> found]
    /\ unreachable_since' = StampMutation(unreachable_since, routes, routes')
    /\ UNCHANGED <<web_rest, metrics_route_count>>

\* let count = state.routing_table.read().await.route_count();
ReadRouteCount(n) ==
    /\ RequestAt(n, "count")
    /\ tasks' = [tasks EXCEPT ![RequestTask(n)].pc = "store",
                              ![RequestTask(n)].count = Some(route_count(routes))]
    /\ op' = [name |-> "route_count", request |-> n]
    /\ UNCHANGED <<routes, unreachable_since, web_rest, metrics_route_count>>

\* state.metrics.update_route_count(count), and the handler returns.
UpdateRouteCount(n) ==
    /\ RequestAt(n, "store")
    /\ metrics_route_count' = tasks[RequestTask(n)].count[1]
    /\ tasks' = [tasks EXCEPT ![RequestTask(n)] = ReturnedRequest(@.ret)]
    /\ op' = [name |-> "update_route_count", request |-> n]
    /\ UNCHANGED <<routes, unreachable_since, web_rest>>

\* Metrics::reset: the counters of the collector and the gauge go back to
\* zero, whatever the table holds.
MetricsReset ==
    /\ metrics' = NewMetrics
    /\ metrics_route_count' = 0
    /\ op' = [name |-> "metrics_reset"]
    /\ UNCHANGED <<table_state, neighbors, routes_v6, auth, lockouts, auth_active,
                   config_manager, network, tasks, event_bus>>

\* The task start_router spawns to recompute the route count every 30
\* seconds; while it waits for a tick it holds nothing and is left out of
\* `tasks`.
MetricsTask ==
    <<"metrics_updater">>

\* The tasks with `task` under `id`.
SpawnedWith(id, task) ==
    [x \in DOMAIN tasks \cup {id} |-> IF x = id THEN task ELSE tasks[x]]

\* The tasks without the one under `id`.
SpawnedWithout(id) ==
    [x \in DOMAIN tasks \ {id} |-> tasks[x]]

\* At a tick: let count = routing_table.read().await.route_count();
MetricsUpdaterRead ==
    /\ MetricsTask \notin DOMAIN tasks
    /\ tasks' = SpawnedWith(MetricsTask,
                            [pc |-> "store", count |-> Some(route_count(routes))])
    /\ op' = [name |-> "metrics_updater", step |-> "route_count"]
    /\ UNCHANGED <<routes, unreachable_since, web_rest, metrics_route_count>>

\* metrics_updater.update_route_count(count); the rest of the turn
\* publishes a snapshot.
MetricsUpdaterStore ==
    /\ MetricsTask \in DOMAIN tasks
    /\ metrics_route_count' = tasks[MetricsTask].count[1]
    /\ tasks' = SpawnedWithout(MetricsTask)
    /\ op' = [name |-> "metrics_updater", step |-> "update_route_count"]
    /\ UNCHANGED <<routes, unreachable_since, web_rest>>

\* The task start_router spawns to apply configuration changes; while it
\* waits in config_receiver.changed() it is left out of `tasks`.
ConfigChangeTask ==
    <<"config_change">>

ConfigChangeAt(pc) ==
    /\ ConfigChangeTask \in DOMAIN tasks
    /\ tasks[ConfigChangeTask].pc = pc

\* The receiver reports a change and holds new_config; Router::apply_config
\* under the router's write lock returns Ok (`applied`) or Err, which is
\* logged and ends the turn.
ConfigChangeApply(new_config, applied) ==
    /\ ConfigChangeTask \notin DOMAIN tasks
    /\ tasks' = IF applied
                THEN SpawnedWith(ConfigChangeTask,
                                 [pc |-> "count", new_config |-> new_config,
                                  count |-> None])
                ELSE tasks
    /\ op' = [name |-> "config_change", step |-> "apply_config",
              config |-> new_config, applied |-> applied]
    /\ UNCHANGED <<routes, unreachable_since, web_rest, metrics_route_count>>

\* let route_count = routing_table_for_config.read().await.route_count();
ConfigChangeReadCount ==
    /\ ConfigChangeAt("count")
    /\ tasks' = [tasks EXCEPT ![ConfigChangeTask].pc = "store",
                              ![ConfigChangeTask].count = Some(route_count(routes))]
    /\ op' = [name |-> "config_change", step |-> "route_count"]
    /\ UNCHANGED <<routes, unreachable_since, web_rest, metrics_route_count>>

\* metrics_for_config.update_route_count(route_count)
ConfigChangeStore ==
    /\ ConfigChangeAt("store")
    /\ metrics_route_count' = tasks[ConfigChangeTask].count[1]
    /\ tasks' = [tasks EXCEPT ![ConfigChangeTask].pc = "auth"]
    /\ op' = [name |-> "config_change", step |-> "update_route_count"]
    /\ UNCHANGED <<routes, unreachable_since, web_rest>>

\* AuthManager::new(new_config.auth): the default admin alone, no token, no
\* failed attempt.  The jti of a token is a fresh UUID, so the counter of
\* the tokens issued goes on from `issued`.
AuthManagerFor(auth_config, issued) ==
    [NewAuthManager(DEFAULT_MAX_FAILED_ATTEMPTS) EXCEPT
        !.config.enabled = auth_config.enabled,
        !.config.token_expiry_hours = auth_config.token_expiry_hours,
        !.issued = issued]

\* Under the lock of AppState.auth: a new manager is stored when the new
\* configuration enables authentication, and None otherwise; the manager
\* that was there is dropped with its users, locks and tokens.
ConfigChangeAuth ==
    /\ ConfigChangeAt("auth")
    /\ LET new_config == tasks[ConfigChangeTask].new_config
           manager == AuthManagerFor(new_config.auth, auth.issued)
       IN  /\ auth_active' = AuthActive(new_config)
           /\ auth' = IF AuthActive(new_config) THEN manager ELSE auth
           /\ lockouts' = IF AuthActive(new_config) THEN NoLockouts(manager)
                          ELSE lockouts
           /\ op' = [name |-> "config_change", step |-> "auth",
                     config |-> new_config]
    /\ tasks' = SpawnedWithout(ConfigChangeTask)
    /\ UNCHANGED <<table_state, metrics, neighbors, routes_v6, config_manager,
                   network, event_bus, metrics_route_count>>

WebDestinations ==
    {<<Net10, Mask24>>, <<Net10, Mask16>>}

\* Metrics of create_route requests: absent, below the smallest, beyond
\* infinity.
RequestMetrics ==
    {None, Some(0), Some(17)}

WebRequests ==
    {[handler |-> "create_route", destination |-> d[1], mask |-> d[2],
      next_hop |-> PeerA, metric |-> m, interface |-> "eth0"] :
        d \in WebDestinations, m \in RequestMetrics}
    \cup {[handler |-> "delete_route", destination |-> d[1], mask |-> d[2]] :
            d \in WebDestinations}

\* The tokens a request can carry: none, or one a client received.
HeldTokens ==
    {None} \cup {Some(tasks[id].token) :
                    id \in {ClientTask(j) : j \in 1..MaxTokens} \cap DOMAIN tasks}

\* The configurations of the daemon: the default, which enables
\* authentication in auth but not in web; both enabled; both disabled.
WebConfigs ==
    {[DefaultRouterConfig EXCEPT !.auth.enabled = e[1], !.web.auth_enabled = e[2]] :
        e \in {<<TRUE, FALSE>>, <<TRUE, TRUE>>, <<FALSE, FALSE>>}}

\* The daemon starts from one of the configurations; its table is empty,
\* and so is the count that start_router stores in the gauge.
InitWeb ==
    /\ InitRoutes
    /\ \E config \in WebConfigs :
          InitServicesFor(AuthManagerFor(config.auth, 0), Some(config))
    /\ route_timeout = DEFAULT_ROUTE_TIMEOUT
    /\ garbage_collection_timeout = DEFAULT_GC_TIMEOUT
    /\ poison_reverse = FALSE

\* No request is in progress and the metrics task waits for its tick: a
\* configuration change arrives then.
WebCalm ==
    /\ MetricsTask \notin DOMAIN tasks
    /\ \A n \in 1..MaxRequests :
          RequestTask(n) \in DOMAIN tasks => tasks[RequestTask(n)].pc = "returned"

\* No configuration change is being applied: clients log in and send
\* requests, the metrics task takes a turn and the gauge is reset then.
WebSettled ==
    ConfigChangeTask \notin DOMAIN tasks

NextWeb ==
    \/ WebSettled /\ WebLogin([username |-> "admin", password |-> "admin123"])
    \/ \E n \in 1..MaxRequests, request \in WebRequests, token \in HeldTokens :
          WebSettled /\ EnsurePermission(n, request, token)
    \/ \E n \in 1..MaxRequests : CreateRouteWrite(n)
    \/ \E n \in 1..MaxRequests : DeleteRouteWrite(n)
    \/ \E n \in 1..MaxRequests : ReadRouteCount(n)
    \/ \E n \in 1..MaxRequests : UpdateRouteCount(n)
    \/ WebSettled /\ MetricsReset
    \/ WebSettled /\ MetricsUpdaterRead
    \/ MetricsUpdaterStore
    \/ \E config \in WebConfigs, applied \in BOOLEAN :
          WebCalm /\ ConfigChangeApply(config, applied)
    \/ ConfigChangeReadCount
    \/ ConfigChangeStore
    \/ ConfigChangeAuth

SpecWeb ==
    InitWeb /\ [][NextWeb]_vars

---------------------------------------------------------------------------
(* Packet codec                                                            *)

\* u16::to_le_bytes: the low byte first.
be16_little_endian(x) ==
    <<x % 256, (x \div 256) % 256>>

\* u16::to_be_bytes
be16(x) ==
    <<(x \div 256) % 256, x % 256>>

\* u32::to_be_bytes
be32(x) ==
    <<u32_hi(x) \div 256, u32_hi(x) % 256, u32_lo(x) \div 256, u32_lo(x) % 256>>

\* u16::from_be_bytes
from_be16(b1, b2) ==
    b1 * 256 + b2

\* u32::from_be_bytes
from_be32(b1, b2, b3, b4) ==
    (IF b1 < 128 THEN b1 ELSE b1 - 256) * 16777216 + b2 * 65536 + b3 * 256 + b4

\* RipCommand as u8
command_byte(command) ==
    IF command = "Request" THEN 1 ELSE 2

\* The 20 bytes to_bytes writes for one entry.
entry_bytes(entry) ==
    be16(entry.address_family) \o be16(entry.route_tag) \o entry.ip_address
        \o entry.subnet_mask \o entry.next_hop \o be32(entry.metric)

RECURSIVE entries_bytes(_, _)
\* The bytes of the entries from the i-th on.
entries_bytes(entries, i) ==
    IF i > Len(entries)
    THEN <<>>
    ELSE entry_bytes(entries[i]) \o entries_bytes(entries, i + 1)

\* RipPacket::to_bytes
to_bytes(packet) ==
    Ok(<<command_byte(packet.command), packet.version>> \o be16(packet.reserved)
           \o entries_bytes(packet.entries, 1))

\* The entry from_bytes reads at a 0-based offset.
entry_at(data, offset) ==
    [address_family |-> from_be16(data[offset + 1], data[offset + 2]),
     route_tag |-> from_be16(data[offset + 3], data[offset + 4]),
     ip_address |-> <<data[offset + 5], data[offset + 6], data[offset + 7],
                      data[offset + 8]>>,
     subnet_mask |-> <<data[offset + 9], data[offset + 10], data[offset + 11],
                       data[offset + 12]>>,
     next_hop |-> <<data[offset + 13], data[offset + 14], data[offset + 15],
                    data[offset + 16]>>,
     metric |-> from_be32(data[offset + 17], data[offset + 18], data[offset + 19],
                          data[offset + 20])]

RECURSIVE parse_entries(_, _)
\* The loop of from_bytes: while offset + 20 <= data.len().
parse_entries(data, offset) ==
    IF offset + 20 <= Len(data)
    THEN <<entry_at(data, offset)>> \o parse_entries(data, offset + 20)
    ELSE <<>>

\* RipPacket::from_bytes
from_bytes(data) ==
    IF Len(data) < 4
    THEN Err("Packet too short")
    ELSE IF data[1] \notin {1, 2}
    THEN Err("Invalid command")
    ELSE Ok([command |-> IF data[1] = 1 THEN "Request" ELSE "Response",
             version |-> data[2],
             reserved |-> from_be16(data[3], data[4]),
             entries |-> parse_entries(data, 4)])

\* The JSON decoder: every member of the tree must parse into its type.

\* Deserialize for RipEntry: every member must parse into its type.
entry_from_json(j) ==
    LET address_family == parse_number(j.address_family, 65535)
        route_tag == parse_number(j.route_tag, 65535)
        ip_address == ipv4_from_str(j.ip_address)
        subnet_mask == ipv4_from_str(j.subnet_mask)
        next_hop == ipv4_from_str(j.next_hop)
        metric == parse_u32(j.metric)
    IN
    IF \/ address_family = None
       \/ route_tag = None
       \/ ip_address = None
       \/ subnet_mask = None
       \/ next_hop = None
       \/ metric = None
    THEN None
    ELSE Some([address_family |-> address_family[1],
               route_tag |-> route_tag[1],
               ip_address |-> ip_address[1],
               subnet_mask |-> subnet_mask[1],
               next_hop |-> next_hop[1],
               metric |-> metric[1]])

\* RipPacket::from_json
from_json(json) ==
    LET version == parse_number(json.version, 255)
        reserved == parse_number(json.reserved, 65535)
        entries == [i \in 1..Len(json.entries) |-> entry_from_json(json.entries[i])]
    IN
    IF \/ json.command \notin {"Request", "Response"}
       \/ version = None
       \/ reserved = None
       \/ \E i \in 1..Len(json.entries) : entries[i] = None
    THEN Err("JSON deserialization failed")
    ELSE Ok([command |-> json.command,
             version |-> version[1],
             reserved |-> reserved[1],
             entries |-> [i \in 1..Len(json.entries) |-> entries[i][1]]])

---------------------------------------------------------------------------
(* SpecCodec: the two codecs applied to packets and to datagrams.  op holds *)
(* the input and, after a call, what the call returned.                     *)

\* Entries with every field in range: a route, a route with a tag and a
\* next hop, and the entry of a request for the whole table.
CodecEntries ==
    {[address_family |-> 2, route_tag |-> 0, ip_address |-> Net10,
      subnet_mask |-> Mask16, next_hop |-> UNSPECIFIED, metric |-> 1],
     [address_family |-> 2, route_tag |-> 258, ip_address |-> <<192, 168, 1, 0>>,
      subnet_mask |-> Mask24, next_hop |-> PeerA, metric |-> 16],
     [address_family |-> 0, route_tag |-> 0, ip_address |-> UNSPECIFIED,
      subnet_mask |-> UNSPECIFIED, next_hop |-> UNSPECIFIED, metric |-> 16]}

\* The valid packets of 1..MaxEntries entries.
CodecPackets ==
    {[command |-> c, version |-> 2, reserved |-> 0, entries |-> es] :
        c \in {"Request", "Response"},
        es \in UNION {[1..n -> CodecEntries] : n \in 1..MaxEntries}}

\* 20 bytes of one entry as they arrive: family 2, a tag, address, mask,
\* next hop, metric.
RawEntries ==
    {<<0, 2, 0, 0, 10, 0, 0, 0, 255, 255, 0, 0, 0, 0, 0, 0, 0, 0, 0, 1>>,
     <<0, 2, 1, 2, 192, 168, 1, 0, 255, 255, 255, 0, 10, 1, 0, 1, 0, 0, 1, 0>>}

\* An entry whose metric is the largest u32, and its 20 bytes.
LargeMetricEntry ==
    [address_family |-> 2, route_tag |-> 0, ip_address |-> Net10,
     subnet_mask |-> Mask16, next_hop |-> UNSPECIFIED,
     metric |-> from_be32(255, 255, 255, 255)]

LargeMetricRawEntry ==
    <<0, 2, 0, 0, 10, 0, 0, 0, 255, 255, 0, 0, 0, 0, 0, 0, 255, 255, 255, 255>>

RECURSIVE Flatten(_, _)
Flatten(blocks, i) ==
    IF i > Len(blocks) THEN <<>> ELSE blocks[i] \o Flatten(blocks, i + 1)

\* Header and 1..MaxEntries whole entries: length 4 + 20 * N.
ValidDatagrams ==
    {<<c, 2, 0, 0>> \o Flatten(bs, 1) :
        c \in {1, 2},
        bs \in UNION {[1..n -> RawEntries] : n \in 1..MaxEntries}}

\* Too short, a wrong version, a reserved field that is not 0, a length that
\* is not 4 + 20 * N, and 26 entries.
MalformedDatagrams ==
    {<<>>, <<2, 2, 0>>}
        \cup {<<2, v, 0, 0>> \o e : v \in {1, 3}, e \in RawEntries}
        \cup {<<2, 2, 0, 1>> \o e : e \in RawEntries}
        \cup {<<2, 2, 0, 0>> \o e \o <<7>> : e \in RawEntries}
        \cup {<<2, 2, 0, 0>> \o Flatten([i \in 1..26 |-> e], 1) : e \in RawEntries}

InitCodec ==
    /\ InitServices
    /\ routes = [k \in {} |-> None]
    /\ unreachable_since = [k \in {} |-> 0]
    /\ now = 0
    /\ swept = FALSE
    /\ route_timeout = DEFAULT_ROUTE_TIMEOUT
    /\ garbage_collection_timeout = DEFAULT_GC_TIMEOUT
    /\ poison_reverse = FALSE
    /\ op \in {[name |-> "packet", packet |-> p] :
                  p \in CodecPackets
                        \cup {[command |-> "Response", version |-> 2, reserved |-> 0,
                               entries |-> <<LargeMetricEntry>>]}}
              \cup {[name |-> "datagram", data |-> d] :
                        d \in ValidDatagrams \cup MalformedDatagrams
                              \cup {<<2, 2, 0, 0>> \o LargeMetricRawEntry}}

\* The variables the codec does not touch.
table_vars ==
    <<routes, timers, poison_reverse, services, now, swept, unreachable_since>>

\* to_bytes of a packet.
ToBytes ==
    /\ op.name = "packet"
    /\ op' = [name |-> "to_bytes", packet |-> op.packet, ret |-> to_bytes(op.packet)]
    /\ UNCHANGED table_vars

\* from_bytes of what to_bytes returned.
FromBytesOfEncoded ==
    /\ op.name = "to_bytes"
    /\ op.ret.ok
    /\ op' = [name |-> "to_bytes_from_bytes", packet |-> op.packet,
              ret |-> from_bytes(op.ret.value)]
    /\ UNCHANGED table_vars

\* to_json of a packet.
ToJson ==
    /\ op.name = "packet"
    /\ op' = [name |-> "to_json", packet |-> op.packet, ret |-> to_json(op.packet)]
    /\ UNCHANGED table_vars

\* from_json of what to_json returned.
FromJsonOfEncoded ==
    /\ op.name = "to_json"
    /\ op.ret.ok
    /\ op' = [name |-> "to_json_from_json", packet |-> op.packet,
              ret |-> from_json(op.ret.value)]
    /\ UNCHANGED table_vars

\* from_bytes of a datagram.
FromBytes ==
    /\ op.name = "datagram"
    /\ op' = [name |-> "from_bytes", data |-> op.data, ret |-> from_bytes(op.data)]
    /\ UNCHANGED table_vars

\* to_bytes of what from_bytes returned.
ToBytesOfDecoded ==
    /\ op.name = "from_bytes"
    /\ op.ret.ok
    /\ op' = [name |-> "from_bytes_to_bytes", data |-> op.data,
              ret |-> to_bytes(op.ret.value)]
    /\ UNCHANGED table_vars

\* validate of what from_bytes returned.
ValidateDecoded ==
    /\ op.name = "from_bytes"
    /\ op.ret.ok
    /\ op' = [name |-> "from_bytes_validate", data |-> op.data,
              ret |-> validate(op.ret.value)]
    /\ UNCHANGED table_vars

NextCodec ==
    \/ ToBytes
    \/ FromBytesOfEncoded
    \/ ToJson
    \/ FromJsonOfEncoded
    \/ FromBytes
    \/ ToBytesOfDecoded
    \/ ValidateDecoded

SpecCodec ==
    InitCodec /\ [][NextCodec]_vars

---------------------------------------------------------------------------
(* Configuration manager: the operations, step by step.  update_config and  *)
(* the file watcher's task take the locks of current_config, config_version *)
(* and history one after the other and hold none across the next step, so   *)
(* that the steps of calls and of watcher tasks interleave between any two  *)
(* of them.                                                                 *)

UpdateTaskOf(n) ==
    <<"update_config", n>>

\* The task the file watcher spawns for its k-th Modify event.
WatcherTaskOf(k) ==
    <<"watcher", k>>

\* At most MaxVersions tasks of the watcher run at a time.
WatcherTasks ==
    {WatcherTaskOf(k) : k \in 1..MaxVersions}

\* No operation makes more than MaxVersions Modify events.
EventsLeft ==
    config_manager.events < MaxVersions

AtStep(id, pc) ==
    /\ id \in DOMAIN tasks
    /\ tasks[id].pc = pc

\* The tasks with one more.
WithTask(id, task) ==
    [x \in DOMAIN tasks \cup {id} |-> IF x = id THEN task ELSE tasks[x]]

\* A call that has returned: its locals are dropped.
Returned(ret) ==
    [pc |-> "returned", new_config |-> None, current_version |-> None, ret |-> ret]

\* A call at its start, with the configuration it goes on with, or returned
\* at once with an error.
ConfigTask(new_config, ret) ==
    IF ret.ok
    THEN [pc |-> "create_file",
          new_config |-> new_config,
          current_version |-> None,
          ret |-> ret]
    ELSE Returned(ret)

race_rest ==
    <<table_state, metrics, neighbors, routes_v6, auth, lockouts, auth_active, network,
      event_bus, metrics_route_count>>

\* update_config is called: the validation.
UpdateConfigCall(n, new_config) ==
    /\ UpdateTaskOf(n) \notin DOMAIN tasks
    /\ update_config_ret(new_config).ok => EventsLeft
    /\ tasks' = WithTask(UpdateTaskOf(n),
                         ConfigTask(Some(new_config), update_config_ret(new_config)))
    /\ op' = [name |-> "update_config", task |-> UpdateTaskOf(n),
              config |-> Some(new_config)]
    /\ UNCHANGED <<config_manager, race_rest>>

\* ConfigManager::rollback_to is called: under the read lock of history the
\* snapshot of the version is looked up, and update_config validates it.
RollbackToCall(n, version) ==
    LET snapshot == find_snapshot(config_manager, version) IN
    /\ UpdateTaskOf(n) \notin DOMAIN tasks
    /\ (snapshot # None /\ update_config_ret(snapshot[1].config).ok) => EventsLeft
    /\ tasks' = WithTask(UpdateTaskOf(n),
                         IF snapshot = None
                         THEN ConfigTask(None, Err("Snapshot not found"))
                         ELSE ConfigTask(Some(snapshot[1].config),
                                         update_config_ret(snapshot[1].config)))
    /\ op' = [name |-> "rollback_to", task |-> UpdateTaskOf(n),
              config |-> IF snapshot = None THEN None ELSE Some(snapshot[1].config)]
    /\ UNCHANGED <<config_manager, race_rest>>

\* ConfigManager::restore_backup of an existing backup file that holds
\* `config` is called: the file is read and validated, and update_config
\* validates it again.
RestoreBackupCall(n, config) ==
    /\ UpdateTaskOf(n) \notin DOMAIN tasks
    /\ (validate_config(config) /\ update_config_ret(config).ok) => EventsLeft
    /\ tasks' = WithTask(UpdateTaskOf(n),
                         ConfigTask(Some(config),
                                    IF ~validate_config(config)
                                    THEN Err("Backup contains invalid configuration")
                                    ELSE update_config_ret(config)))
    /\ op' = [name |-> "restore_backup", task |-> UpdateTaskOf(n),
              config |-> Some(config)]
    /\ UNCHANGED <<config_manager, race_rest>>

\* A write of the file that makes a Modify event of its own needs room for
\* the event of the write that follows.
EventRoom(event) ==
    event => config_manager.events + 1 < MaxVersions

\* The file after `events` more Modify events.
WithFile(content, events) ==
    [config_manager EXCEPT
        !.file = content, !.pending = @ + events, !.events = @ + events]

\* tokio::fs::write(&self.config_path, json), its first half: the file is
\* created anew, which leaves it empty until the text is written.  The
\* watcher is told of this modification (`event`) or only of the one that
\* follows.
UpdateConfigCreateFile(n, event) ==
    /\ AtStep(UpdateTaskOf(n), "create_file")
    /\ EventRoom(event)
    /\ config_manager' = WithFile(None, IF event THEN 1 ELSE 0)
    /\ tasks' = [tasks EXCEPT ![UpdateTaskOf(n)].pc = "write_file"]
    /\ op' = [name |-> "create_file", task |-> UpdateTaskOf(n)]
    /\ UNCHANGED race_rest

\* Its second half: the text is written, and the watcher will notice.
UpdateConfigWriteFile(n) ==
    /\ AtStep(UpdateTaskOf(n), "write_file")
    /\ config_manager' = WithFile(tasks[UpdateTaskOf(n)].new_config, 1)
    /\ tasks' = [tasks EXCEPT ![UpdateTaskOf(n)].pc = "set_config"]
    /\ op' = [name |-> "write_file", task |-> UpdateTaskOf(n)]
    /\ UNCHANGED race_rest

\* The file watcher's task for a Modify event, to its first lock: the file
\* is loaded and validated; a file that cannot be parsed or does not pass
\* is logged and the task ends.  k is the least number no running task of
\* the watcher has.
WatcherLoad(k) ==
    LET loaded == config_manager.file
        accepted == loaded # None /\ validate_config(loaded[1])
    IN
    /\ config_manager.pending > 0
    /\ WatcherTaskOf(k) \notin DOMAIN tasks
    /\ \A j \in 1..(k - 1) : WatcherTaskOf(j) \in DOMAIN tasks
    /\ config_manager' = [config_manager EXCEPT !.pending = @ - 1]
    /\ tasks' = IF accepted
                THEN WithTask(WatcherTaskOf(k),
                              [pc |-> "set_config",
                               new_config |-> loaded,
                               current_version |-> None,
                               ret |-> Ok("()")])
                ELSE tasks
    /\ op' = [name |-> "watcher_reload", task |-> WatcherTaskOf(k),
              accepted |-> accepted]
    /\ UNCHANGED race_rest

\* *config = new_config.clone(), under the write lock of current_config.
UpdateConfigSetCurrent(id) ==
    /\ AtStep(id, "set_config")
    /\ config_manager' = [config_manager EXCEPT
                            !.current_config = tasks[id].new_config[1]]
    /\ tasks' = [tasks EXCEPT ![id].pc = "increment"]
    /\ op' = [name |-> "set_config", task |-> id]
    /\ UNCHANGED race_rest

\* *version += 1, under the write lock of config_version.
UpdateConfigIncrement(id) ==
    /\ AtStep(id, "increment")
    /\ config_manager' = [config_manager EXCEPT !.config_version = @ + 1]
    /\ tasks' = [tasks EXCEPT ![id].pc = "notify"]
    /\ op' = [name |-> "increment", task |-> id]
    /\ UNCHANGED race_rest

\* change_sender.send(new_config.clone()).  With the receiver dropped send
\* returns Err and the channel keeps its value: update_config warns and
\* goes on, the watcher's task logs the error and ends.
UpdateConfigNotify(id) ==
    LET delivered == ~config_manager.change.closed IN
    /\ AtStep(id, "notify")
    /\ config_manager' =
         IF delivered
         THEN [config_manager EXCEPT
                 !.change.value = tasks[id].new_config[1],
                 !.change.sent = @ + 1]
         ELSE config_manager
    /\ tasks' = IF delivered \/ id \notin WatcherTasks
                THEN [tasks EXCEPT ![id].pc = "read_version"]
                ELSE [x \in DOMAIN tasks \ {id} |-> tasks[x]]
    /\ op' = [name |-> "notify", task |-> id, delivered |-> delivered]
    /\ UNCHANGED race_rest

\* The caller of ConfigManager::new drops the receiver it was given.
DropReceiver ==
    /\ ~config_manager.change.closed
    /\ config_manager' = [config_manager EXCEPT !.change.closed = TRUE]
    /\ op' = [name |-> "drop_receiver"]
    /\ UNCHANGED <<tasks, race_rest>>

\* let current_version = *config_version.read().await;
UpdateConfigReadVersion(id) ==
    /\ AtStep(id, "read_version")
    /\ tasks' = [tasks EXCEPT
                    ![id].pc = "record",
                    ![id].current_version = Some(config_manager.config_version)]
    /\ op' = [name |-> "read_version", task |-> id]
    /\ UNCHANGED <<config_manager, race_rest>>

\* record_snapshot under the write lock of history; then update_config
\* returns, or the watcher's task ends.
UpdateConfigRecord(id) ==
    /\ AtStep(id, "record")
    /\ config_manager' =
         [config_manager EXCEPT
            !.history = record_snapshot(@, config_manager.history_limit,
                                        tasks[id].current_version[1],
                                        tasks[id].new_config[1])]
    /\ tasks' = IF id \in WatcherTasks
                THEN [x \in DOMAIN tasks \ {id} |-> tasks[x]]
                ELSE [tasks EXCEPT ![id] = Returned(@.ret)]
    /\ op' = [name |-> "record_snapshot", task |-> id]
    /\ UNCHANGED race_rest

EditTask ==
    <<"edit_file">>

\* The operator edits the configuration file, as std::fs::write does: the
\* file is created anew, empty, and the watcher is told of it (`event`) or
\* only of the write that follows.
EditFile(content, event) ==
    /\ EditTask \notin DOMAIN tasks
    /\ EventsLeft
    /\ EventRoom(event)
    /\ config_manager' = WithFile(None, IF event THEN 1 ELSE 0)
    /\ tasks' = WithTask(EditTask, [pc |-> "write_file", new_config |-> content])
    /\ op' = [name |-> "edit_file", step |-> "create_file"]
    /\ UNCHANGED race_rest

\* The edit's text is written.
EditFileWrite ==
    /\ AtStep(EditTask, "write_file")
    /\ config_manager' = WithFile(tasks[EditTask].new_config, 1)
    /\ tasks' = [x \in DOMAIN tasks \ {EditTask} |-> tasks[x]]
    /\ op' = [name |-> "edit_file", step |-> "write_file"]
    /\ UNCHANGED race_rest

\* The steps of the calls and of the watcher's tasks after their first;
\* `reports` says whether the watcher may be told of a file's truncation.
ConfigSteps(reports) ==
    \/ \E n \in 1..MaxCalls, event \in reports : UpdateConfigCreateFile(n, event)
    \/ \E n \in 1..MaxCalls : UpdateConfigWriteFile(n)
    \/ \E id \in DOMAIN tasks : UpdateConfigSetCurrent(id)
    \/ \E id \in DOMAIN tasks : UpdateConfigIncrement(id)
    \/ \E id \in DOMAIN tasks : UpdateConfigNotify(id)
    \/ \E id \in DOMAIN tasks : UpdateConfigReadVersion(id)
    \/ \E id \in DOMAIN tasks : UpdateConfigRecord(id)

---------------------------------------------------------------------------
(* SpecConfig: the manager starts from a file that holds a valid or an      *)
(* invalid configuration, or none; one client submits configurations of     *)
(* both kinds, rolls back and restores, one call after the other, while the *)
(* watcher's tasks run; the operator edits the file between the calls.      *)
(* The caller keeps the receiver of the change channel, as start_router     *)
(* does, and the watcher is told of each write of the file once, when its   *)
(* text has been written; SpecConfigWatch has the other cases.              *)

\* The default; an interface with an IPv6 network; the configuration of
\* tests::test_invalid_config_validation; an update interval of 0; an
\* interface whose address is no network.
Configs ==
    {DefaultRouterConfig,
     [DefaultRouterConfig EXCEPT
        !.interfaces[1].address =
            <<"2", "0", "0", "1", ":", "d", "b", "8", ":", ":", "1", "/", "6", "4">>],
     [DefaultRouterConfig EXCEPT !.router_id = "", !.interfaces = << >>],
     [DefaultRouterConfig EXCEPT !.rip.update_interval = 0],
     [DefaultRouterConfig EXCEPT
        !.interfaces[1].address =
            ipv4_to_string(<<192, 168, 1, 1>>) \o <<"/">> \o Decimal(33)]}

\* The file the manager starts from: none that parses, the default, the
\* configuration of tests::test_invalid_config_validation.
Files ==
    {None,
     Some(DefaultRouterConfig),
     Some([DefaultRouterConfig EXCEPT !.router_id = "", !.interfaces = << >>])}

InitConfig ==
    /\ InitRoutes
    /\ route_timeout = DEFAULT_ROUTE_TIMEOUT
    /\ garbage_collection_timeout = DEFAULT_GC_TIMEOUT
    /\ poison_reverse = FALSE
    /\ \E file \in Files : InitServicesWith(DEFAULT_MAX_FAILED_ATTEMPTS, file)

\* The client's n-th call: the calls before it have been made.
NextCall(n) ==
    \A j \in 1..(n - 1) : UpdateTaskOf(j) \in DOMAIN tasks

\* The contents the operator leaves in the file: a valid configuration, an
\* invalid one.
Edits ==
    {Some([DefaultRouterConfig EXCEPT !.router_id = "192.168.2.1"]),
     Some([DefaultRouterConfig EXCEPT !.rip.update_interval = 0])}

\* No call and no task of the watcher is in progress and no event waits:
\* the client and the operator act then.
Quiet ==
    /\ config_manager.pending = 0
    /\ \A id \in DOMAIN tasks : tasks[id].pc = "returned"

NextConfig ==
    \/ \E n \in 1..MaxCalls, c \in Configs :
          Quiet /\ NextCall(n) /\ UpdateConfigCall(n, c)
    \/ \E n \in 1..MaxCalls, v \in 1..MaxVersions :
          Quiet /\ NextCall(n) /\ RollbackToCall(n, v)
    \/ \E n \in 1..MaxCalls, c \in Configs :
          Quiet /\ NextCall(n) /\ RestoreBackupCall(n, c)
    \/ \E k \in 1..MaxVersions : WatcherLoad(k)
    \/ ConfigSteps({FALSE})
    \/ \E content \in Edits : Quiet /\ EditFile(content, FALSE)
    \/ EditFileWrite

SpecConfig ==
    InitConfig /\ [][NextConfig]_vars

---------------------------------------------------------------------------
(* SpecConfigRace: calls of ConfigManager::update_config that run at the    *)
(* same time.  The Modify events of their writes stay with the watcher.     *)

\* The default, another router id, a third router id, and the configuration
\* of tests::test_invalid_config_validation.
RaceConfigs ==
    {DefaultRouterConfig,
     [DefaultRouterConfig EXCEPT !.router_id = "192.168.2.1"],
     [DefaultRouterConfig EXCEPT !.router_id = "192.168.3.1"],
     [DefaultRouterConfig EXCEPT !.router_id = "", !.interfaces = << >>]}

NextConfigRace ==
    \/ \E n \in 1..MaxCalls, c \in RaceConfigs : UpdateConfigCall(n, c)
    \/ ConfigSteps(BOOLEAN)
    \/ DOMAIN tasks = {} /\ DropReceiver

SpecConfigRace ==
    Init /\ [][NextConfigRace]_vars

---------------------------------------------------------------------------
(* SpecConfigWatch: the watcher's tasks while the file is written.  One     *)
(* call of update_config and the operator's edits write the file in two     *)
(* steps; the watcher is told of the truncation or only of the text, and    *)
(* its tasks load whatever the file holds when they run.  The caller of     *)
(* ConfigManager::new keeps the receiver or drops it at once, as            *)
(* `let (manager, _) = ConfigManager::new(..)` does.                        *)

NextConfigWatch ==
    \/ \E c \in Edits : UpdateConfigCall(1, c[1])
    \/ \E content \in Edits, event \in BOOLEAN : Quiet /\ EditFile(content, event)
    \/ EditFileWrite
    \/ \E k \in 1..MaxVersions : WatcherLoad(k)
    \/ ConfigSteps(BOOLEAN)
    \/ DOMAIN tasks = {} /\ config_manager.events = 0 /\ DropReceiver

SpecConfigWatch ==
    Init /\ [][NextConfigWatch]_vars

---------------------------------------------------------------------------
(* SpecNet and SpecLearn: a chain of routers.  Every router of the chain     *)
(* runs one of the two programs of the repository: the daemon start_router  *)
(* of main.rs, or Router::run_with_real_networking of router.rs.  Both      *)
(* write a packet as JSON text and send it as one datagram, so either       *)
(* understands the other.  Each task of a router takes its steps on its     *)
(* own, from one await to the next; a datagram that was sent waits in the   *)
(* socket of the router at the other end of the link until the receive task *)
(* there takes it.  Of the daemon the chain keeps the tasks that read or    *)
(* write the routing table for RIP: the periodic updates, the table         *)
(* maintenance and the receive loops.                                       *)
(* The links lose, duplicate and reorder nothing, a router hears only the   *)
(* other end of a link, and every task finishes what an update interval     *)
(* gave it to do before the next tick.                                      *)

\* The changes a step made to the table of router r, each with the links it
\* would be advertised on: an entry that is new or whose metric grew.
ChangesToAdvertise(r, old, new) ==
    {c \in (DOMAIN new) \X LinksOf(r) :
        /\ c[1] \notin DOMAIN old \/ u32_gt(new[c[1]].metric, old[c[1]].metric)
        /\ new[c[1]].interface # LinkInterface(c[2])}

\* The history after router r's table went from `old` to `new`.
NoteChanges(unadvertised, r, old, new) ==
    [unadvertised EXCEPT
        ![r] = {c \in @ : c[1] \in DOMAIN new} \cup ChangesToAdvertise(r, old, new)]

\* The history after router r built a packet of the routes rs for the
\* interface: what the packet carries on a link is no longer unadvertised.
NoteAdvertised(unadvertised, r, rs, interface) ==
    [unadvertised EXCEPT
        ![r] = {c \in @ : ~(/\ LinkInterface(c[2]) = interface
                            /\ \E i \in DOMAIN rs : KeyOf(rs[i]) = c[1])}]

net_rest ==
    <<routes, timers, poison_reverse, swept, unreachable_since, metrics, neighbors,
      routes_v6, auth, lockouts, auth_active, config_manager, tasks, event_bus,
      metrics_route_count>>

Started(r) ==
    network.programs[r] # "down"

\* The socket of interface i after router r sent `text` there: the datagram
\* reaches the router at the other end of the link if that one is running.
\* `history` is not part of the datagram: the router and the link it comes
\* from and the table the sender held when it built the packet.
send_to(sockets, r, interface, text, held) ==
    [s \in DOMAIN sockets |->
        IF /\ s[2] = interface
           /\ \E link \in LinksOf(r) :
                 LinkInterface(link) = interface /\ s[1] = Neighbour(r, link)
           /\ Started(s[1])
        THEN Append(sockets[s],
                    [text |-> text,
                     sender |-> InterfaceAddress(r, interface),
                     history |-> [router |-> r, interface |-> interface,
                                  held |-> held]])
        ELSE sockets[s]]

\* The routers of `programs` that run the daemon.
Daemons(programs) ==
    {r \in DOMAIN programs : programs[r] = "daemon"}

\* The programs are started, each with the timers of its tasks due: the
\* first tick of a tokio interval completes at once.  start_router stores
\* the number of routes of its table in the gauge before it spawns a task.
NetStart(programs) ==
    /\ \A r \in Routers : ~Started(r)
    /\ network' =
         [network EXCEPT
            !.programs = [r \in Routers |->
                             IF r \in DOMAIN programs THEN programs[r] ELSE "down"],
            !.route_count = [r \in Routers |->
                                IF r \in Daemons(programs)
                                THEN route_count(network.tables[r])
                                ELSE @[r]],
            !.due = {<<r, "update">> : r \in DOMAIN programs}
                      \cup {<<r, "maintenance">> : r \in Daemons(programs)}
                      \cup {<<r, "metrics">> : r \in Daemons(programs)}]
    /\ op' = [name |-> "net_start", programs |-> programs]
    /\ UNCHANGED <<net_rest, now>>

\* What the periodic update task of the daemon does after a turn for the
\* head of `interfaces`: the next interface, or the wait for the next tick.
NextInterface(interfaces) ==
    IF Len(interfaces) = 1
    THEN IdleUpdate
    ELSE [IdleUpdate EXCEPT !.pc = "routing_table", !.interfaces = Tail(interfaces)]

\* The periodic update task of the daemon (main.rs), the first half of a
\* turn of its loop over the interfaces: under the table's read lock the
\* routes for the interface are copied; without routes the turn is over.
NetPeriodicUpdateRead(r) ==
    LET task == network.update[r]
        interfaces == IF task.pc = "tick" THEN InterfaceList(r) ELSE task.interfaces
    IN
    /\ network.programs[r] = "daemon"
    /\ \/ task.pc = "tick" /\ <<r, "update">> \in network.due
       \/ task.pc = "routing_table"
    /\ \E order \in IterationOrders(network.tables[r]) :
          LET rs == get_routes_for_advertising(network.tables[r], order,
                                               Head(interfaces))
          IN network' =
               [network EXCEPT
                  !.due = @ \ {<<r, "update">>},
                  !.update[r] =
                      IF Len(rs) = 0
                      THEN NextInterface(interfaces)
                      ELSE [pc |-> "send_packet",
                            interfaces |-> interfaces,
                            sockets |-> {},
                            packet |-> Some(new_update(rs)),
                            held |-> Some(network.tables[r])],
                  !.unadvertised = NoteAdvertised(@, r, rs, Head(interfaces))]
    /\ op' = [name |-> "net_update", step |-> "routing_table", router |-> r,
              interface |-> Head(interfaces)]
    /\ UNCHANGED <<net_rest, now>>

\* The second half: send_packet writes the packet as JSON and sends it.
NetPeriodicUpdateSend(r) ==
    LET task == network.update[r]
        json == to_json(task.packet[1])
    IN
    /\ network.programs[r] = "daemon"
    /\ task.pc = "send_packet"
    /\ network' =
         [network EXCEPT
            !.sockets = IF json.ok
                        THEN send_to(@, r, Head(task.interfaces), json.value,
                                     task.held[1])
                        ELSE @,
            !.update[r] = NextInterface(task.interfaces)]
    /\ op' = [name |-> "net_update", step |-> "send_packet", router |-> r,
              interface |-> Head(task.interfaces)]
    /\ UNCHANGED <<net_rest, now>>

\* The maintenance task of the daemon: process_timeouts, garbage_collect
\* and the route count gauge under one write lock.
NetMaintenance(r) ==
    /\ network.programs[r] = "daemon"
    /\ <<r, "maintenance">> \in network.due
    /\ LET swept_table == maintain(network.tables[r], now, route_timeout,
                                   garbage_collection_timeout)
       IN network' = [network EXCEPT
                        !.due = @ \ {<<r, "maintenance">>},
                        !.tables[r] = swept_table,
                        !.route_count[r] = route_count(swept_table),
                        !.unadvertised = NoteChanges(@, r, network.tables[r],
                                                     swept_table)]
    /\ op' = [name |-> "net_maintenance", router |-> r]
    /\ UNCHANGED <<net_rest, now>>

\* The metrics task of the daemon at a tick of its 30 seconds:
\* let count = routing_table_for_metrics.read().await.route_count();
NetMetricsUpdaterRead(r) ==
    /\ network.programs[r] = "daemon"
    /\ <<r, "metrics">> \in network.due
    /\ network' = [network EXCEPT
                     !.due = @ \ {<<r, "metrics">>},
                     !.metrics_updater[r] =
                         [pc |-> "store",
                          count |-> Some(route_count(network.tables[r]))]]
    /\ op' = [name |-> "net_metrics", step |-> "route_count", router |-> r]
    /\ UNCHANGED <<net_rest, now>>

\* metrics_updater.update_route_count(count); the snapshot the turn then
\* publishes is no route event.
NetMetricsUpdaterStore(r) ==
    /\ network.programs[r] = "daemon"
    /\ network.metrics_updater[r].pc = "store"
    /\ network' = [network EXCEPT
                     !.route_count[r] = network.metrics_updater[r].count[1],
                     !.metrics_updater[r] = IdleMetricsUpdater]
    /\ op' = [name |-> "net_metrics", step |-> "update_route_count", router |-> r]
    /\ UNCHANGED <<net_rest, now>>

\* Router::periodic_update_sender from the tick to the end of its first
\* block: the silent neighbors are dropped.
NetPeriodicUpdateSender(r) ==
    /\ network.programs[r] = "router"
    /\ network.update[r].pc = "tick"
    /\ <<r, "update">> \in network.due
    /\ network' = [network EXCEPT
                     !.due = @ \ {<<r, "update">>},
                     !.neighbors[r] = retain_neighbors(@, now),
                     !.update[r].pc = "sweep"]
    /\ op' = [name |-> "net_update", step |-> "neighbors", router |-> r]
    /\ UNCHANGED <<net_rest, now>>

\* The second block: both sweeps under the table's write lock.
NetPeriodicUpdateSenderSweep(r) ==
    /\ network.programs[r] = "router"
    /\ network.update[r].pc = "sweep"
    /\ LET swept_table == maintain(network.tables[r], now, route_timeout,
                                   garbage_collection_timeout)
       IN network' = [network EXCEPT
                        !.tables[r] = swept_table,
                        !.update[r].pc = "get_all_routes",
                        !.unadvertised = NoteChanges(@, r, network.tables[r],
                                                     swept_table)]
    /\ op' = [name |-> "net_update", step |-> "sweep", router |-> r]
    /\ UNCHANGED <<net_rest, now>>

\* The third block: all routes are copied under the table's read lock; an
\* empty table ends the round, otherwise one packet is built and written as
\* JSON for every socket.
NetPeriodicUpdateSenderRead(r) ==
    /\ network.programs[r] = "router"
    /\ network.update[r].pc = "get_all_routes"
    /\ \E order \in IterationOrders(network.tables[r]) :
          LET rs == get_all_routes(network.tables[r], order) IN
          network' =
            [network EXCEPT
               !.update[r] =
                   IF Len(rs) = 0
                   THEN IdleUpdate
                   ELSE [pc |-> "send_to",
                         interfaces |-> << >>,
                         sockets |-> InterfacesOf(r),
                         packet |-> Some(new_update(rs)),
                         held |-> Some(network.tables[r])],
               !.unadvertised =
                   [@ EXCEPT ![r] = {c \in @ : \A i \in DOMAIN rs :
                                                  KeyOf(rs[i]) # c[1]}]]
    /\ op' = [name |-> "net_update", step |-> "get_all_routes", router |-> r]
    /\ UNCHANGED <<net_rest, now>>

\* One send_to of the loop over the sockets, in the order of the HashMap.
NetPeriodicUpdateSenderSend(r, interface) ==
    LET task == network.update[r] IN
    /\ network.programs[r] = "router"
    /\ task.pc = "send_to"
    /\ interface \in task.sockets
    /\ network' =
         [network EXCEPT
            !.sockets = send_to(@, r, interface, to_json(task.packet[1]).value,
                                task.held[1]),
            !.update[r] = IF task.sockets = {interface}
                          THEN IdleUpdate
                          ELSE [task EXCEPT !.sockets = @ \ {interface}]]
    /\ op' = [name |-> "net_update", step |-> "send_to", router |-> r,
              interface |-> interface]
    /\ UNCHANGED <<net_rest, now>>

\* A receive task that has taken a datagram and read `packet` from it.
Received(pc, packet, datagram) ==
    [pc |-> pc,
     packet |-> Some(packet),
     sender |-> Some(datagram.sender),
     history |-> Some(datagram.history),
     routes |-> << >>]

\* What a receive task's step tells of the datagram it is about.
ReceiveOp(step, r, interface, task) ==
    [name |-> "net_receive",
     step |-> step,
     to |-> r,
     interface |-> interface,
     router |-> task.history[1].router,
     held |-> task.history[1].held,
     sender |-> task.sender[1],
     packet |-> task.packet]

\* Router::packet_receiver from recv_from to the first await of
\* process_rip_packet, for the first datagram waiting in the socket, which
\* the buffer of 65536 bytes holds whole: it is counted; text that from_json
\* rejects or a packet that validate rejects is counted as dropped.
NetPacketReceiver(r, interface) ==
    LET s == <<r, interface>>
        datagram == Head(network.sockets[s])
    IN
    /\ network.programs[r] = "router"
    /\ network.receive[s].pc = "recv_from"
    /\ network.sockets[s] # << >>
    /\ \E parsed \in {from_json(datagram.text)} :
       \E accepted \in {parsed.ok /\ validate(parsed.value)} :
          /\ network' =
               [network EXCEPT
                  !.sockets[s] = Tail(@),
                  !.metrics[r] = [@ EXCEPT
                                    !.packets_received = @ + 1,
                                    !.packets_dropped =
                                        IF accepted THEN @ ELSE @ + 1],
                  !.receive[s] = IF accepted
                                 THEN Received("neighbors", parsed.value, datagram)
                                 ELSE IdleReceive]
          /\ op' = [name |-> "net_receive", step |-> "recv_from", to |-> r,
                    interface |-> interface, router |-> datagram.history.router,
                    held |-> datagram.history.held, sender |-> datagram.sender,
                    packet |-> IF accepted THEN Some(parsed.value) ELSE None]
    /\ UNCHANGED <<net_rest, now>>

\* process_rip_packet's first block, under the neighbors' write lock, and
\* the count of the update.
NetProcessRipPacketNeighbors(r, interface) ==
    LET s == <<r, interface>>
        task == network.receive[s]
    IN
    /\ network.programs[r] = "router"
    /\ task.pc = "neighbors"
    /\ network' =
         [network EXCEPT
            !.neighbors[r] = register_neighbor(@, task.packet[1], task.sender[1],
                                               interface, now),
            !.metrics[r].routing_updates_received =
                IF task.packet[1].command = "Response" THEN @ + 1 ELSE @,
            !.receive[s] = IF task.packet[1].command = "Response"
                           THEN [task EXCEPT !.pc = "routing_table"]
                           ELSE IdleReceive]
    /\ op' = ReceiveOp("neighbors", r, interface, task)
    /\ UNCHANGED <<net_rest, now>>

\* The Response arm of process_rip_packet under the table's write lock.
NetProcessRipPacketRoutes(r, interface) ==
    LET s == <<r, interface>>
        task == network.receive[s]
        received == process_rip_packet(network.tables[r], task.packet[1],
                                       task.sender[1], interface, now)
    IN
    /\ network.programs[r] = "router"
    /\ task.pc = "routing_table"
    /\ network' =
         [network EXCEPT
            !.tables[r] = received,
            !.metrics[r].route_changes =
                @ + process_rip_packet_changes(network.tables[r], task.packet[1],
                                               task.sender[1], interface, now),
            !.receive[s] = IdleReceive,
            !.unadvertised = NoteChanges(@, r, network.tables[r], received)]
    /\ op' = ReceiveOp("routing_table", r, interface, task)
    /\ UNCHANGED <<net_rest, now>>

\* The first step of a turn of the daemon's receive loop (main.rs), for the
\* first datagram waiting in the socket: receive_packet reads it into a
\* buffer of mtu bytes and returns Err for text that was cut there, for text
\* that from_json rejects and for a packet that validate rejects, and the
\* loop logs it; an accepted packet is counted.  A Request is answered as in
\* SpecLoop; no router of the chain sends one.
NetReceiveLoop(r, interface) ==
    LET s == <<r, interface>>
        datagram == Head(network.sockets[s])
    IN
    /\ network.programs[r] = "daemon"
    /\ network.receive[s].pc = "recv_from"
    /\ network.sockets[s] # << >>
    /\ \E parsed \in {IF fits_mtu(datagram.text)
                       THEN from_json(datagram.text)
                       ELSE Err("JSON deserialization failed")} :
       \E accepted \in {parsed.ok /\ validate(parsed.value)} :
          /\ network' =
               [network EXCEPT
                  !.sockets[s] = Tail(@),
                  !.metrics[r].packets_received = IF accepted THEN @ + 1 ELSE @,
                  !.receive[s] =
                      IF accepted /\ parsed.value.command = "Response"
                      THEN Received("handle_rip_response", parsed.value, datagram)
                      ELSE IdleReceive]
          /\ op' = [name |-> "net_receive", step |-> "receive_packet", to |-> r,
                    interface |-> interface, router |-> datagram.history.router,
                    held |-> datagram.history.held, sender |-> datagram.sender,
                    packet |-> IF accepted THEN Some(parsed.value) ELSE None]
    /\ UNCHANGED <<net_rest, now>>

\* The Response arm's call of handle_rip_response: it has returned
\* Ok(routes).  The function is not in the source tree; what it does to the
\* table and what it returns is section 4.3 of the specification.
NetReceiveLoopHandle(r, interface) ==
    LET s == <<r, interface>>
        task == network.receive[s]
        received == handle_rip_response(network.tables[r], task.packet[1],
                                        task.sender[1], interface, now)
        changed == HandleEntriesRoutes(network.tables[r], task.packet[1].entries,
                                       1, task.sender[1], interface, now)
    IN
    /\ network.programs[r] = "daemon"
    /\ task.pc = "handle_rip_response"
    /\ network' =
         [network EXCEPT
            !.tables[r] = received,
            !.neighbors[r] = register_neighbor(@, task.packet[1], task.sender[1],
                                               interface, now),
            !.metrics[r] = [@ EXCEPT
                              !.routing_updates_received = @ + 1,
                              !.route_changes = @ + Len(changed)],
            !.receive[s] = IF Len(changed) = 0
                           THEN IdleReceive
                           ELSE [IdleReceive EXCEPT !.pc = "publish",
                                                    !.routes = changed],
            !.unadvertised = NoteChanges(@, r, network.tables[r], received)]
    /\ op' = ReceiveOp("handle_rip_response", r, interface, task)
    /\ UNCHANGED <<net_rest, now>>

\* One iteration of `for route in routes { events.publish(..) }`.
NetPublishRouteEvent(r, interface) ==
    LET s == <<r, interface>>
        task == network.receive[s]
    IN
    /\ network.programs[r] = "daemon"
    /\ task.pc = "publish"
    /\ network' =
         [network EXCEPT
            !.events[r] = Append(@, RouteEvent(Head(task.routes))),
            !.receive[s] = IF Len(task.routes) = 1
                           THEN IdleReceive
                           ELSE [task EXCEPT !.routes = Tail(@)]]
    /\ op' = [name |-> "net_publish", router |-> r, interface |-> interface]
    /\ UNCHANGED <<net_rest, now>>

\* The update interval passes: every task has done what the last tick gave
\* it to do and waits, the sockets are empty.  The update timers are due
\* again and, the interval being the 30 seconds of the metrics tasks, so
\* are theirs; the maintenance timers of the daemons every second interval.
NetTick ==
    /\ network.round < MaxRounds
    /\ \E r \in Routers : Started(r)
    /\ network.due = {}
    /\ \A r \in Routers : network.update[r].pc = "tick"
    /\ \A r \in Routers : network.metrics_updater[r].pc = "tick"
    /\ \A s \in Sockets : /\ network.receive[s].pc = "recv_from"
                          /\ network.sockets[s] = << >>
    /\ network' =
         [network EXCEPT
            !.round = @ + 1,
            !.due = {<<r, "update">> : r \in {x \in Routers : Started(x)}}
                      \cup {<<r, "metrics">> : r \in Daemons(network.programs)}
                      \cup {<<r, "maintenance">> :
                               r \in {x \in Routers :
                                        /\ network.programs[x] = "daemon"
                                        /\ (network.round + 1) % 2 = 0}}]
    /\ now' = now + Max(DEFAULT_UPDATE_INTERVAL, MIN_UPDATE_INTERVAL)
    /\ op' = [name |-> "net_tick"]
    /\ UNCHANGED net_rest

\* The origin withdraws the prefix in the first update interval:
\* remove_route on R1.
NetWithdraw ==
    /\ network.withdrawn = None
    /\ network.round = 0
    /\ network' = [network EXCEPT
                     !.tables[1] = remove_route(@, Net10, Mask24),
                     !.withdrawn = Some(network.round),
                     !.unadvertised = NoteChanges(@, 1, network.tables[1],
                                          remove_route(network.tables[1], Net10, Mask24))]
    /\ op' = [name |-> "net_withdraw"]
    /\ UNCHANGED <<net_rest, now>>

\* A step of the metrics task of a daemon.
NetMetricsStep ==
    \/ \E r \in Routers : NetMetricsUpdaterRead(r)
    \/ \E r \in Routers : NetMetricsUpdaterStore(r)

\* The metrics tasks have taken the turn their last tick gave them.
NetMetricsIdle ==
    \A r \in Routers : /\ <<r, "metrics">> \notin network.due
                        /\ network.metrics_updater[r].pc = "tick"

\* A step of a task of a running router that reads or writes for RIP.
NetStep ==
    \/ \E r \in Routers : NetPeriodicUpdateRead(r)
    \/ \E r \in Routers : NetPeriodicUpdateSend(r)
    \/ \E r \in Routers : NetMaintenance(r)
    \/ \E r \in Routers : NetPeriodicUpdateSender(r)
    \/ \E r \in Routers : NetPeriodicUpdateSenderSweep(r)
    \/ \E r \in Routers : NetPeriodicUpdateSenderRead(r)
    \/ \E s \in Sockets : NetPeriodicUpdateSenderSend(s[1], s[2])
    \/ \E s \in Sockets : NetPacketReceiver(s[1], s[2])
    \/ \E s \in Sockets : NetProcessRipPacketNeighbors(s[1], s[2])
    \/ \E s \in Sockets : NetProcessRipPacketRoutes(s[1], s[2])
    \/ \E s \in Sockets : NetReceiveLoop(s[1], s[2])
    \/ \E s \in Sockets : NetReceiveLoopHandle(s[1], s[2])
    \/ \E s \in Sockets : NetPublishRouteEvent(s[1], s[2])

\* R1 runs the daemon and every other router of the chain a Router.
ChainPrograms ==
    [r \in Routers |-> IF r = 1 THEN "daemon" ELSE "router"]

\* The whole chain runs; R1 may withdraw its prefix.  Of the schedules of
\* the metrics task those are kept in which it takes its turn before the
\* other tasks take theirs; SpecLearn has every schedule.
NextNet ==
    \/ NetStart(ChainPrograms)
    \/ NetMetricsStep
    \/ NetMetricsIdle /\ NetStep
    \/ NetTick
    \/ NetWithdraw

SpecNet ==
    Init /\ [][NextNet]_vars

\* R1 and R2 run, each either program, and R1 keeps its prefix; what R2
\* sends on its other link reaches nobody.
NextLearn ==
    \/ \E programs \in [{1, 2} -> Programs] : NetStart(programs)
    \/ NetMetricsStep
    \/ NetStep
    \/ NetTick

SpecLearn ==
    Init /\ [][NextLearn]_vars

---------------------------------------------------------------------------
(* Properties                                                              *)

\* address & mask == destination & mask, octet by octet.
Covers(address, route) ==
    \A i \in 1..4 :
        BitAnd(address[i], route.subnet_mask[i])
            = BitAnd(route.destination[i], route.subnet_mask[i])

\* The number of one bits of a mask.
MaskBits(subnet_mask) ==
    Cardinality({c \in (1..4) \X (0..7) : (subnet_mask[c[1]] \div (2 ^ c[2])) % 2 = 1})

SamePath(a, b) ==
    /\ a.source = b.source
    /\ a.metric = b.metric
    /\ a.next_hop = b.next_hop
    /\ a.interface = b.interface

\* The last operation was `name` and found an incumbent of one of `sources`.
Found(name, sources) ==
    /\ op.name = name
    /\ op.old # None
    /\ op.old[1].source \in sources

\* C1: a Dynamic update never displaces a Direct or Static route: after
\* add_or_replace with a Dynamic route on a prefix whose incumbent is Direct
\* or Static, the entry has the incumbent's source, metric, next hop and
\* interface.
C1_DynamicNeverDisplaces ==
    (Found("add_or_replace", {"Direct", "Static"}) /\ op.route.source = "Dynamic")
        => /\ KeyOf(op.route) \in DOMAIN routes
           /\ SamePath(routes[KeyOf(op.route)], op.old[1])

\* C8: after install_direct_route(D, M, iface) the entry for (D, M) is a
\* Direct route with metric 1, next hop unspecified and interface iface,
\* whatever the incumbent was.
C8_InstallDirectInstalls ==
    op.name = "install_direct_route"
        => /\ KeyOf(op.route) \in DOMAIN routes
           /\ LET e == routes[KeyOf(op.route)] IN
              /\ e.source = "Direct"
              /\ e.metric = 1
              /\ e.next_hop = UNSPECIFIED
              /\ e.interface = op.route.interface

\* The entry add_static_route left is the Static route it was given.
StaticInstalled ==
    /\ KeyOf(op.route) \in DOMAIN routes
    /\ LET e == routes[KeyOf(op.route)] IN
       /\ e.source = "Static"
       /\ e.metric = op.route.metric
       /\ e.next_hop = op.route.next_hop
       /\ e.interface = op.route.interface

\* Another entry covers the address with a prefix at least as long as k's.
Rivalled(k, address) ==
    \E x \in DOMAIN routes \ {k} :
        /\ Covers(address, routes[x])
        /\ MaskBits(x[2]) >= MaskBits(k[2])

\* C9 as stated: after add_static_route on a prefix whose incumbent is
\* Dynamic the entry is the Static route, whatever the two metrics, and a
\* lookup for any address in the prefix returns it.
C9_StaticOverridesDynamic_AsStated ==
    Found("add_static_route", {"Dynamic"})
        => /\ StaticInstalled
           /\ \A a \in LookupAddresses, order \in IterationOrders(routes) :
                Covers(a, op.route)
                    => get_route(routes, order, a) = Some(routes[KeyOf(op.route)])

\* C9 as amended: after add_static_route on a prefix whose incumbent is
\* Dynamic the entry is the Static route, whatever the two metrics, and a
\* lookup for an address in the prefix returns it when no other entry that
\* covers the address has a prefix of equal or greater length.
C9_StaticOverridesDynamic ==
    Found("add_static_route", {"Dynamic"})
        => /\ StaticInstalled
           /\ \A a \in LookupAddresses, order \in IterationOrders(routes) :
                (Covers(a, op.route) /\ ~Rivalled(KeyOf(op.route), a))
                    => get_route(routes, order, a) = Some(routes[KeyOf(op.route)])

\* A Static route of larger metric has just replaced a Dynamic one and is
\* what a lookup in its prefix returns.
C9_Witness ==
    /\ Found("add_static_route", {"Dynamic"})
    /\ u32_gt(op.route.metric, op.old[1].metric)
    /\ \E a \in LookupAddresses, order \in IterationOrders(routes) :
          /\ Covers(a, op.route)
          /\ ~Rivalled(KeyOf(op.route), a)
          /\ get_route(routes, order, a) = Some(routes[KeyOf(op.route)])
          /\ get_route(routes, order, a)[1].source = "Static"

\* C10: installing Static replaces only Dynamic: add_static_route on a prefix
\* whose incumbent is Direct leaves the entry Direct, with metric 1, next hop
\* unspecified and its interface.
C10_StaticNeverDisplacesDirect ==
    Found("add_static_route", {"Direct"})
        => /\ KeyOf(op.route) \in DOMAIN routes
           /\ SamePath(routes[KeyOf(op.route)], op.old[1])

\* The entries of the table that cover an address.
Covering(address) ==
    {k \in DOMAIN routes : Covers(address, routes[k])}

\* C6: lookup is longest-prefix match: the entry find_best_route returns
\* covers the address and no covering entry has a strictly longer prefix; it
\* returns nothing only when no entry covers the address.
C6_LongestPrefixMatch ==
    op.name = "get_route"
        => IF op.ret = None
           THEN Covering(op.destination) = {}
           ELSE \E k \in Covering(op.destination) :
                   /\ routes[k] = op.ret[1]
                   /\ \A x \in Covering(op.destination) :
                         MaskBits(routes[x].subnet_mask)
                             <= MaskBits(routes[k].subnet_mask)

\* A lookup returned the more specific of two covering entries.
C6_Witness ==
    /\ op.name = "get_route"
    /\ op.ret # None
    /\ \E x \in Covering(op.destination) :
          MaskBits(routes[x].subnet_mask) < MaskBits(op.ret[1].subnet_mask)

SourceRank(source) ==
    CASE source = "Direct" -> 3
      [] source = "Static" -> 2
      [] source = "Dynamic" -> 1

\* a is at least as preferred as b: by source, then metric, then age.
Preferred(a, b) ==
    \/ SourceRank(a.source) > SourceRank(b.source)
    \/ /\ SourceRank(a.source) = SourceRank(b.source)
       /\ \/ u32_lt(a.metric, b.metric)
          \/ a.metric = b.metric /\ a.last_updated <= b.last_updated

\* C7: lookup is a function of the table's content: for every address,
\* find_best_route returns the same entry whatever order the map iterates in,
\* and among the covering entries of equal longest prefix it is the one of
\* highest source preference, then smallest metric, then oldest last-updated.
C7_LookupDeterministic ==
    \A a \in LookupAddresses, o1 \in IterationOrders(routes) :
        /\ \A o2 \in IterationOrders(routes) :
              find_best_route(routes, o1, a) = find_best_route(routes, o2, a)
        /\ find_best_route(routes, o1, a) # None
              => \A k \in Covering(a) :
                    MaskBits(routes[k].subnet_mask)
                          = MaskBits(find_best_route(routes, o1, a)[1].subnet_mask)
                      => Preferred(find_best_route(routes, o1, a)[1], routes[k])

\* The last operation emitted an advertisement on the interface: a send of
\* a periodic update, or of the reply to a Request.
EmittedOn(interface) ==
    \/ /\ op.name \in {"periodic_update", "periodic_update_sender"}
       /\ interface \in op.interfaces
       /\ op.packet # None
    \/ /\ op.name = "receive_loop"
       /\ op.step = "send_packet_to"
       /\ op.interface = interface

\* The packet of that advertisement.
Advertisement ==
    IF op.name = "receive_loop" THEN op.reply[1] ELSE op.packet[1]

\* The table the routes of that advertisement were copied from.
AdvertisedTable ==
    op.held[1]

\* The Dynamic routes of a table whose egress interface is the given one.
LearnedOn(tbl, interface) ==
    {k \in DOMAIN tbl :
        tbl[k].source = "Dynamic" /\ tbl[k].interface = interface}

\* The metrics with which an advertisement carries the prefix of key k.
MetricsOf(packet, k) ==
    {packet.entries[n].metric :
        n \in {x \in DOMAIN packet.entries :
                 /\ packet.entries[x].ip_address = k[1]
                 /\ packet.entries[x].subnet_mask = k[2]}}

\* C4: split horizon: an advertisement emitted on interface I contains no
\* Dynamic route whose egress interface is I when poison_reverse is false,
\* and contains every such route with metric 16 when poison_reverse is true.
C4_SplitHorizon ==
    \A i \in Interfaces :
        EmittedOn(i)
            => \A k \in LearnedOn(AdvertisedTable, i) :
                  IF poison_reverse
                  THEN MetricsOf(Advertisement, k) = {UNREACHABLE_METRIC}
                  ELSE MetricsOf(Advertisement, k) = {}

\* C2: a Dynamic route that a sweep set to metric 16 and that was not
\* refreshed since is absent once the sweeps have run at an instant more than
\* T_gc after it became unreachable.
C2_UnrefreshedRouteRemoved ==
    \A k \in DOMAIN unreachable_since :
        (swept /\ now - unreachable_since[k] > garbage_collection_timeout)
            => k \notin DOMAIN routes

\* The step rewrote the entry of key k by add_or_replace.
Refreshed(k) ==
    /\ op'.name = "add_or_replace"
    /\ KeyOf(op'.route) = k
    /\ op'.ret

\* C3: a Dynamic route whose last update is more than T_timeout old has
\* metric 16 after the sweep, and a Dynamic route of metric 16 keeps it in
\* every step that neither refreshes nor removes it.
C3_TimeoutForcesUnreachable ==
    [][/\ op'.name = "maintenance"
            => \A k \in DOMAIN routes :
                  (/\ routes[k].source = "Dynamic"
                   /\ now - routes[k].last_updated > route_timeout)
                      => /\ k \in DOMAIN routes'
                         /\ routes'[k].metric = UNREACHABLE_METRIC
       /\ \A k \in DOMAIN routes \cap DOMAIN routes' :
              (/\ routes[k].source = "Dynamic"
               /\ routes[k].metric = UNREACHABLE_METRIC
               /\ ~Refreshed(k))
                  => routes'[k].metric = UNREACHABLE_METRIC]_vars

\* The sweep has just set a stale route to metric 16.
C3_Witness ==
    /\ op.name = "maintenance"
    /\ \E k \in DOMAIN routes :
          /\ routes[k].source = "Dynamic"
          /\ routes[k].metric = UNREACHABLE_METRIC
          /\ k \in DOMAIN unreachable_since
          /\ unreachable_since[k] = now

\* C5: lookup never returns an unreachable route: the entry get_route
\* returns has a metric below 16, and it returns an entry whenever a
\* reachable entry covers the address.
C5_LookupSkipsUnreachable ==
    op.name = "get_route"
        => /\ op.ret # None => u32_lt(op.ret[1].metric, UNREACHABLE_METRIC)
           /\ (\E k \in Covering(op.destination) :
                  u32_lt(routes[k].metric, UNREACHABLE_METRIC))
                => op.ret # None

\* The last operation was add_or_replace with a Dynamic route on a Dynamic
\* incumbent of another next hop or interface.
RivalUpdate ==
    /\ Found("add_or_replace", {"Dynamic"})
    /\ op.route.source = "Dynamic"
    /\ \/ op.route.next_hop # op.old[1].next_hop
       \/ op.route.interface # op.old[1].interface

\* C11: better route wins: an update for a Dynamic incumbent that comes with
\* a different next hop or interface replaces the entry (next hop,
\* interface, learned-from, metric) and reports a change when its metric is
\* strictly smaller than the incumbent's; with an equal or larger metric the
\* entry is left as it was and the update reports no change.
C11_BetterRouteWins ==
    RivalUpdate
        => /\ KeyOf(op.route) \in DOMAIN routes
           /\ LET e == routes[KeyOf(op.route)] IN
              IF u32_lt(op.route.metric, op.old[1].metric)
              THEN /\ op.ret
                   /\ e.source = "Dynamic"
                   /\ e.next_hop = op.route.next_hop
                   /\ e.interface = op.route.interface
                   /\ e.learned_from = op.route.learned_from
                   /\ e.metric = op.route.metric
              ELSE /\ ~op.ret
                   /\ e = op.old[1]

\* A route of smaller metric from another peer has just replaced a Dynamic
\* entry learned at an earlier instant.
C11_Witness ==
    /\ RivalUpdate
    /\ u32_lt(op.route.metric, op.old[1].metric)
    /\ op.route.next_hop # op.old[1].next_hop
    /\ op.old[1].last_updated < now
    /\ routes[KeyOf(op.route)].next_hop = op.route.next_hop

\* destination & mask, octet by octet.
Masked(destination, subnet_mask) ==
    [i \in 1..4 |-> BitAnd(destination[i], subnet_mask[i])]

\* C12: entries are stored canonically and keyed by (destination & mask,
\* mask): every entry's destination equals its destination & mask, and no
\* two entries have the same masked destination and mask.
C12_CanonicalKeys ==
    /\ \A k \in DOMAIN routes :
          routes[k].destination
              = Masked(routes[k].destination, routes[k].subnet_mask)
    /\ \A k1, k2 \in DOMAIN routes :
          (/\ routes[k1].subnet_mask = routes[k2].subnet_mask
           /\ Masked(routes[k1].destination, routes[k1].subnet_mask)
                = Masked(routes[k2].destination, routes[k2].subnet_mask))
              => k1 = k2

\* C13: every route stored in the table has a metric in 1..16, after any
\* sequence of received Responses, create_route requests and sweeps.
C13_MetricInRange ==
    \A k \in DOMAIN routes :
        u32_ge(routes[k].metric, 1) /\ u32_le(routes[k].metric, UNREACHABLE_METRIC)

\* C14: in every reachable state of the table every entry whose source is
\* Direct has metric 1 and next hop 0.0.0.0.
C14_DirectMetricOne ==
    \A k \in DOMAIN routes :
        routes[k].source = "Direct"
            => routes[k].metric = 1 /\ routes[k].next_hop = UNSPECIFIED

\* A Direct entry older than the timeout has just been through the timeout
\* sweep.
C14_Witness ==
    /\ op.name = "process_timeouts"
    /\ \E k \in DOMAIN routes :
          /\ routes[k].source = "Direct"
          /\ now - routes[k].last_updated > route_timeout
          /\ routes[k].metric = 1

\* The keys of the Direct and Static entries of a table, and of the
\* router's.
ConfiguredIn(tbl) ==
    {k \in DOMAIN tbl : tbl[k].source \in {"Direct", "Static"}}

Configured ==
    ConfiguredIn(routes)

\* C15: Direct and Static routes are never aged out: process_timeouts
\* changes no field of a Direct or Static entry and garbage_collect removes
\* none, whatever its age or metric.
C15_ConfiguredNeverAged ==
    [][op'.name \in {"process_timeouts", "garbage_collect"}
          => \A k \in Configured :
                k \in DOMAIN routes' /\ routes'[k] = routes[k]]_vars

\* garbage_collect has just run over a Static entry of metric above 15
\* that is older than the garbage collection time, and the entry is there.
C15_Witness ==
    /\ op.name = "garbage_collect"
    /\ \E k \in Configured :
          /\ routes[k].source = "Static"
          /\ u32_ge(routes[k].metric, UNREACHABLE_METRIC)
          /\ now - routes[k].last_updated > garbage_collection_timeout

\* The time for which the entry of key k has been unreachable: since the
\* sweep that set it to 16, or since it was written with that metric.
UnreachableAge(k) ==
    IF k \in DOMAIN unreachable_since
    THEN now - unreachable_since[k]
    ELSE now - routes[k].last_updated

\* The step leaves the entry of key k as it is.
Untouched(k) ==
    k \in DOMAIN routes' /\ routes'[k] = routes[k]

\* C16: sweeps leave routes that are not due untouched: process_timeouts
\* changes no entry whose last update is at most T_timeout old,
\* garbage_collect removes no entry that is reachable or whose unreachable
\* age is at most T_gc, and a sweep right after a route was written leaves
\* that route, and a table that holds only it, unchanged.
C16_SweepsLeaveNotDue ==
    [][/\ op'.name = "process_timeouts"
            => \A k \in DOMAIN routes :
                  now - routes[k].last_updated <= route_timeout => Untouched(k)
       /\ op'.name = "garbage_collect"
            => \A k \in DOMAIN routes :
                  (\/ u32_lt(routes[k].metric, UNREACHABLE_METRIC)
                   \/ UnreachableAge(k) <= garbage_collection_timeout)
                      => Untouched(k)
       /\ (/\ op'.name \in {"process_timeouts", "garbage_collect"}
           /\ op.name \in {"add_or_replace", "install_direct_route",
                           "add_static_route"}
           /\ op.ret)
            => /\ Untouched(KeyOf(op.route))
               /\ DOMAIN routes = {KeyOf(op.route)} => routes' = routes]_vars

\* process_timeouts has just run over a reachable Dynamic entry whose last
\* update is exactly T_timeout old, and the entry kept its metric.
C16_Witness ==
    /\ op.name = "process_timeouts"
    /\ \E k \in DOMAIN routes :
          /\ routes[k].source = "Dynamic"
          /\ u32_lt(routes[k].metric, UNREACHABLE_METRIC)
          /\ now - routes[k].last_updated = route_timeout

\* C17: Direct and Static routes are always advertised: every
\* advertisement generated for an interface contains every Direct and
\* Static route of the table, the Direct route of the network attached to
\* that interface included.
C17_ConfiguredAlwaysAdvertised ==
    \A i \in Interfaces :
        EmittedOn(i)
            => \A k \in ConfiguredIn(AdvertisedTable) :
                  MetricsOf(Advertisement, k) # {}

\* C18: codec round trip: for every valid packet P, from_bytes(to_bytes(P))
\* and from_json(to_json(P)) succeed and equal P field for field, and for
\* every valid datagram B of length 4 + 20 * N, to_bytes(from_bytes(B))
\* equals B.
C18_CodecRoundTrip ==
    /\ op.name \in {"to_bytes", "to_json", "from_bytes_to_bytes"} => op.ret.ok
    /\ op.name \in {"to_bytes_from_bytes", "to_json_from_json"}
          => op.ret.ok /\ op.ret.value = op.packet
    /\ (op.name = "from_bytes" /\ op.data \in ValidDatagrams) => op.ret.ok
    /\ (op.name = "from_bytes_to_bytes" /\ op.data \in ValidDatagrams)
          => op.ret.value = op.data

\* A packet of two entries, one with a route tag of two different bytes and
\* a next hop, has come back from the bytes to_bytes wrote for it.
C18_Witness ==
    /\ op.name = "to_bytes_from_bytes"
    /\ Len(op.packet.entries) = 2
    /\ \E i \in 1..2 : op.packet.entries[i].route_tag = 258
    /\ op.ret.ok
    /\ op.ret.value.entries = op.packet.entries

\* The classes of malformed datagrams.
MalformedFraming(data) ==
    \/ Len(data) < 4
    \/ data[2] # 2
    \/ from_be16(data[3], data[4]) # 0
    \/ (Len(data) - 4) % 20 # 0
    \/ (Len(data) - 4) \div 20 > 25

\* C19: decoding rejects a malformed header or framing: from_bytes returns
\* an error for every input whose length is below 4, whose version byte is
\* not 2, whose reserved field is not 0, whose length minus 4 is not a
\* multiple of 20, or that carries more than 25 entries.
C19_DecodeRejectsMalformed ==
    (op.name = "from_bytes" /\ MalformedFraming(op.data)) => ~op.ret.ok

\* The 32 bits of a mask are ones followed by zeros.
Contiguous(subnet_mask) ==
    LET bit(i) == (subnet_mask[((i - 1) \div 8) + 1] \div (2 ^ (7 - ((i - 1) % 8)))) % 2
    IN  \A i \in 1..31 : bit(i) = 0 => bit(i + 1) = 0

\* A destination with bits outside its mask, a mask that is not contiguous,
\* or a metric above 16.
SemanticallyInvalid(destination, subnet_mask, metric) ==
    \/ destination # Masked(destination, subnet_mask)
    \/ ~Contiguous(subnet_mask)
    \/ u32_gt(metric, UNREACHABLE_METRIC)

\* C20: semantically invalid entries never reach the table: a received
\* Response that carries an entry whose destination has bits outside its
\* mask, whose mask is not contiguous or whose metric exceeds 16 fails
\* validation, and no such entry is installed.
C20_InvalidEntriesRejected ==
    /\ (/\ op.name = "packet_receiver"
        /\ op.packet.command = "Response"
        /\ \E i \in DOMAIN op.packet.entries :
              SemanticallyInvalid(op.packet.entries[i].ip_address,
                                  op.packet.entries[i].subnet_mask,
                                  op.packet.entries[i].metric))
          => ~op.validated
    /\ \A k \in DOMAIN routes :
          ~SemanticallyInvalid(routes[k].destination, routes[k].subnet_mask, 1)

\* C21: a datagram with version 1 adds one to packets_dropped and leaves the
\* routing table and the neighbor registry as they were, in the receive task
\* of the router and in the receive loop of the daemon.
C21_MalformedDrop ==
    [][(/\ op'.name \in {"packet_receiver", "receive_loop"}
        /\ op'.packet.version = 1)
       => /\ metrics'.packets_dropped = metrics.packets_dropped + 1
          /\ routes' = routes
          /\ neighbors' = neighbors]_vars

\* C22: an advertisement, periodic or in reply to a Request, is sent in
\* datagrams of at most 25 entries each.  One send carries one packet, so
\* the packet of every advertisement has at most 25 entries.
C22_AdvertisementFitsDatagram ==
    (\E i \in Interfaces : EmittedOn(i))
    => Len(Advertisement.entries) <= 25

\* C23: install_direct_route on a prefix that already holds the Direct route
\* of the same interface leaves the entry as it was and returns false.
C23_InstallDirectIdempotent ==
    (/\ op.name = "install_direct_route"
     /\ op.old # None
     /\ op.old[1].source = "Direct"
     /\ op.old[1].interface = op.route.interface)
    => /\ op.ret = FALSE
       /\ routes[KeyOf(op.route)] = op.old[1]

\* C27: RipV6RoutingTable::find_best_route returns, among the reachable
\* routes whose prefix contains the destination, one with the longest prefix,
\* and None when there is none.
C27_V6LongestPrefix ==
    op.name = "v6_find_best_route"
    => LET covering == {p \in DOMAIN routes_v6 :
                            /\ v6_contains(p, op.destination)
                            /\ u32_lt(routes_v6[p].metric, V6_INFINITY_METRIC)}
       IN IF covering = {}
          THEN op.ret = None
          ELSE /\ op.ret # None
               /\ op.ret[1].prefix \in covering
               /\ \A p \in covering : op.ret[1].prefix[2] >= p[2]

\* C26: once max_failed_attempts logins in a row have failed for an active
\* user, every login of that user before the lock-out duration has passed
\* is answered "Account is temporarily locked" and issues no token, whatever
\* the password.
C26_AccountLockout ==
    (/\ op.name = "authenticate"
     /\ op.locked_at # None
     /\ op.at < op.locked_at[1] + auth.config.lockout_duration_minutes * 60)
    => /\ ~op.ret.success
       /\ op.ret.token = None
       /\ op.ret.message = "Account is temporarily locked"
       /\ DOMAIN auth.active_tokens = op.tokens

\* A login with the right password, some time after the lock began and
\* before it ends.
C26_Witness ==
    /\ op.name = "authenticate"
    /\ op.locked_at # None
    /\ op.at > op.locked_at[1]
    /\ op.at < op.locked_at[1] + auth.config.lockout_duration_minutes * 60
    /\ op.request.password = "admin123"
    /\ auth.users[op.request.username].active
    /\ op.ret.message = "Account is temporarily locked"

\* The step is the first of a call of update_config, rollback_to or
\* restore_backup, made with a configuration that fails validation.
InvalidConfigCall ==
    /\ op'.name \in {"update_config", "rollback_to", "restore_backup"}
    /\ op'.config # None
    /\ ~validate_config(op'.config[1])

\* C28: update_config, rollback_to and restore_backup with a configuration
\* that fails validation return an error and leave the current
\* configuration, its version, the history and the change channel (and the
\* file) as they were.
C28_InvalidConfigChangesNothing ==
    [][InvalidConfigCall
          => /\ tasks'[op'.task].pc = "returned"
             /\ ~tasks'[op'.task].ret.ok
             /\ config_manager' = config_manager]_vars

\* An invalid configuration was submitted to a manager that has applied a
\* valid one before, and the call has returned.
C28_Witness ==
    /\ op.name \in {"update_config", "rollback_to", "restore_backup"}
    /\ op.config # None
    /\ ~validate_config(op.config[1])
    /\ tasks[op.task].pc = "returned"
    /\ ~tasks[op.task].ret.ok
    /\ config_manager.config_version > 1
    /\ config_manager.current_config # op.config[1]

\* A Dynamic route handed to add_or_replace found a Dynamic incumbent with its
\* own next hop and interface.
SamePeerUpdate ==
    /\ Found("add_or_replace", {"Dynamic"})
    /\ op.route.source = "Dynamic"
    /\ op.route.next_hop = op.old[1].next_hop
    /\ op.route.interface = op.old[1].interface

\* C29: same-peer refresh: an update for a Dynamic route that comes from the
\* route's own next hop and interface resets the route's last-updated to now,
\* whatever its metric (smaller, equal or larger than the stored one).
C29_SamePeerRefresh ==
    SamePeerUpdate
        => /\ KeyOf(op.route) \in DOMAIN routes
           /\ routes[KeyOf(op.route)].last_updated = now

\* C30: a worsened metric from the current next hop is adopted: an update
\* from the same next hop and interface as a Dynamic incumbent whose metric
\* differs from the stored one becomes the stored metric, also when it is
\* larger, and with metric 16 the route is unreachable in the table.
C30_WorsenedMetricAdopted ==
    (SamePeerUpdate /\ op.route.metric # op.old[1].metric)
        => /\ KeyOf(op.route) \in DOMAIN routes
           /\ routes[KeyOf(op.route)].metric = op.route.metric
           /\ op.route.metric = UNREACHABLE_METRIC
                  => u32_ge(routes[KeyOf(op.route)].metric, UNREACHABLE_METRIC)

\* A receive task has just handed the entries of a Response to the table.
NetDelivered ==
    /\ op.name = "net_receive"
    /\ op.step \in {"routing_table", "handle_rip_response"}

\* R2 has just processed a periodic update that R1 built while it held
\* Direct 10.0.0.0/24 on eth0.
DeliveredFromR1 ==
    /\ NetDelivered
    /\ op.router = 1
    /\ op.to = 2
    /\ key(Net10, Mask24) \in DOMAIN op.held
    /\ op.held[key(Net10, Mask24)].source = "Direct"
    /\ op.held[key(Net10, Mask24)].interface = "eth0"

\* C24: two-router learn: once a periodic update of R1, which holds Direct
\* 10.0.0.0/24 on eth0, has been delivered to R2 over their link eth1, R2's
\* table contains 10.0.0.0/24 as a Dynamic route with next hop R1's address
\* on the link, metric 2 and interface eth1, and a lookup on R2 for 10.0.0.5
\* returns that entry.
C24_TwoRouterLearn ==
    DeliveredFromR1
        => LET table == network.tables[2] IN
           /\ key(Net10, Mask24) \in DOMAIN table
           /\ LET e == table[key(Net10, Mask24)] IN
              /\ e.destination = Net10
              /\ e.subnet_mask = Mask24
              /\ e.source = "Dynamic"
              /\ e.next_hop = LinkAddress(1, 1)
              /\ e.metric = 2
              /\ e.interface = "eth1"
              /\ \A order \in IterationOrders(table) :
                    find_best_route(table, order, Host10) = Some(e)

\* R2 has learned the prefix from the update R1 sent at a later instant than
\* the installation of the Direct route.
C24_Witness ==
    /\ DeliveredFromR1
    /\ op.packet # None
    /\ now > 0
    /\ key(Net10, Mask24) \in DOMAIN network.tables[2]
    /\ network.tables[2][key(Net10, Mask24)].last_updated = now
    /\ network.tables[2][key(Net10, Mask24)].metric = 2

\* C25: count-to-infinity bound: in a chain of K routers, once K whole update
\* rounds have followed the round in which the origin withdrew the prefix,
\* every router of the chain holds the prefix at metric 16 or not at all.
C25_WithdrawalConverges ==
    (/\ network.withdrawn # None
     /\ network.round >= network.withdrawn[1] + ChainLength + 1)
        => \A r \in Routers :
              key(Net10, Mask24) \in DOMAIN network.tables[r]
                 => network.tables[r][key(Net10, Mask24)].metric = UNREACHABLE_METRIC

\* C31: metric increment: the metric stored for a route learned from a
\* Response entry with received metric m equals min(m + cost, 16), the cost
\* of an interface being 1: the metric that process_rip_packet hands to the
\* table for an entry of a Response, which is the metric the table stores for
\* a route it learns from the entry, is the entry's metric plus 1, at most 16.
C31_MetricIncrement ==
    (op.name = "packet_receiver" /\ op.step = "routing_table")
        => \A i \in DOMAIN op.packet.entries :
              op.handed[i] = u32_min(u32_succ(op.packet.entries[i].metric),
                                     UNREACHABLE_METRIC)

\* C32: an unreachable advertisement never creates a route: a Dynamic route
\* of metric 16 for a prefix without an incumbent adds no entry to the table;
\* a new Dynamic entry has a metric below 16.
C32_UnreachableNeverCreates ==
    (/\ op.name = "add_or_replace"
     /\ op.route.source = "Dynamic"
     /\ op.old = None)
        => IF u32_ge(op.route.metric, UNREACHABLE_METRIC)
           THEN KeyOf(op.route) \notin DOMAIN routes
           ELSE /\ KeyOf(op.route) \in DOMAIN routes
                /\ u32_lt(routes[KeyOf(op.route)].metric, UNREACHABLE_METRIC)

\* C33: triggered updates: a route change that installs a route, increases
\* a metric or poisons a route, by reception or by the timeout sweep, is
\* advertised on the router's other links without waiting for the next
\* periodic tick: when an update interval ends, no router has a change that
\* it has not sent.
C33_TriggeredUpdates ==
    [][op'.name = "net_tick"
          => \A r \in Routers : network.unadvertised[r] = {}]_vars

\* The events of a sequence that are about the prefix (D, M), in order.
EventsOf(events, destination, subnet_mask) ==
    SelectSeq(events, LAMBDA e : /\ e.destination = ipv4_to_string(destination)
                                 /\ e.subnet_mask = ipv4_to_string(subnet_mask))

\* C34: route-change events keep mutation order: for a prefix, the events
\* published so far are, in the same order, the first of the events of the
\* table's mutations, also when the receive tasks of two interfaces process
\* Responses for the prefix concurrently.
C34_EventsKeepMutationOrder ==
    LET published == EventsOf(event_bus.published, Net10, Mask16)
        mutated == EventsOf(event_bus.mutated, Net10, Mask16)
    IN  /\ Len(published) <= Len(mutated)
        /\ published = SubSeq(mutated, 1, Len(published))

\* C36: a bind failure skips only the failing interface: after
\* initialize_all, every configured interface whose bind did not fail has its
\* socket and every interface whose bind failed has none.
C36_BindFailureSkipsOnlyFailing ==
    op.name = "initialize_all"
        => \A n \in op.configured :
              IF n \in op.failing
              THEN op.interfaces[n].socket = None
              ELSE op.interfaces[n].socket # None

\* C37: neighbor timeout poisons its routes: when the update sender drops a
\* neighbor from the registry for inactivity, every Dynamic route learned
\* from that peer has metric 16 once the table sweep of the same round
\* (process_timeouts, garbage_collect) has run.
C37_NeighborTimeoutPoisons ==
    [][(op'.name = "periodic_update_sender" /\ op'.step = "sweep")
          => \A p \in tasks[UpdateTask].dropped :
                \A k \in DOMAIN routes' :
                    (/\ routes'[k].source = "Dynamic"
                     /\ routes'[k].learned_from = Some(p))
                        => routes'[k].metric = UNREACHABLE_METRIC]_vars

\* C38: token revocation is permanent: a token that has been logged out, or
\* whose user has been deactivated, is rejected by validate_token in every
\* later state, whatever logins, logouts, user creations, deactivations and
\* clean-ups have happened since; a validate_token call on it returns an error.
C38_RevocationPermanent ==
    /\ \A id \in DOMAIN tasks :
          ("revoked" \in DOMAIN tasks[id] /\ tasks[id].revoked)
              => ~validate_token(auth, tasks[id].token, now).ok
    /\ (/\ op.name = "validate_token"
        /\ \E id \in DOMAIN tasks :
              tasks[id].token = op.token /\ tasks[id].revoked)
          => ~op.ret.ok

\* A logged-out token is presented and refused while the same user holds a
\* second, valid token.
C38_Witness ==
    /\ op.name = "validate_token"
    /\ op.ret = Err("TokenRevoked")
    /\ auth.users[op.token.sub].active
    /\ \E id \in DOMAIN tasks :
          /\ tasks[id].token.sub = op.token.sub
          /\ ~tasks[id].revoked
          /\ validate_token(auth, tasks[id].token, now).ok

\* C39: the route_count metric matches the table after admin mutations: once
\* every create_route and delete_route request that was started has returned,
\* the route_count stored in the metrics equals the number of entries of the
\* routing table.
C39_RouteCountMatchesTable ==
    (/\ op.name = "update_route_count"
     /\ \A n \in 1..MaxRequests :
           RequestTask(n) \in DOMAIN tasks => tasks[RequestTask(n)].pc = "returned")
        => metrics_route_count = route_count(routes)

\* C40: the config history agrees with the current configuration: once every
\* update_config call that was started has returned, the newest snapshot of
\* the history carries the current config version and the configuration
\* get_config returns; and in every state no two snapshots of the history
\* have the same version and the history holds at most 20 snapshots.
C40_HistoryAgreesWithCurrent ==
    LET history == config_manager.history IN
    /\ (/\ \E n \in 1..MaxCalls : UpdateTaskOf(n) \in DOMAIN tasks
        /\ \A n \in 1..MaxCalls :
              UpdateTaskOf(n) \in DOMAIN tasks
                  => tasks[UpdateTaskOf(n)].pc = "returned")
          => /\ Len(history) > 0
             /\ history[Len(history)].version = config_manager.config_version
             /\ history[Len(history)].config = config_manager.current_config
    /\ \A i, j \in DOMAIN history :
          history[i].version = history[j].version => i = j
    /\ Len(history) <= DEFAULT_HISTORY_LIMIT

====
